---- MODULE Spec2Model ----
(***************************************************************************)
(* A model of excludarr's reconciliation engine.                           *)
(*                                                                         *)
(* Part I  (specification Spec): the sync engine of excludarr/sync.py with  *)
(*   the aggregator of excludarr/provider_manager.py in front of it and    *)
(*   the Sonarr client of excludarr/sonarr.py behind it.  The engine has   *)
(*   three entry points, each an action: _process_series (the whole        *)
(*   pipeline), _make_sync_decision (the planner on a caller-supplied      *)
(*   availability map) and _execute_sync_decision (the executor on a       *)
(*   caller-supplied decision).                                            *)
(*                                                                         *)
(* Part II (specification SpecChecker): the Jellyseerr availability        *)
(*   checker of excludarr/availability.py with the blacklist and the       *)
(*   circuit breaker of excludarr/availability_cache.py, run by several    *)
(*   workers that share one cache object.                                  *)
(***************************************************************************)
EXTENDS Integers, Sequences, FiniteSets, TLC

(***************************************************************************)
(* Bounds of the model.                                                    *)
(***************************************************************************)
\* Season numbers run 0..MaxSeason (season 0 is "specials").
MaxSeason == 2
\* Episode files a season holds at most.
MaxFiles == 1
\* Entries of config.streaming_providers at most (at least one).
MaxUserProviders == 2
\* Workers that run availability lookups against one shared cache object.
NumWorkers == 2
\* Availability lookups started in one run, over all workers.
MaxLookups == 3
\* The clock runs 0..MaxTime.
MaxTime == 2
\* CircuitBreaker.recovery_timeout, in ticks of the model's clock (the code's
\* default is 60 seconds).
RecoveryTimeout == 1
\* AvailabilityCache.default_ttl, in ticks of the model's clock (the code's
\* default is 300 seconds).
CacheTtl == 1

\* CircuitBreaker.failure_threshold.
FailureThreshold == 3
\* AvailabilityCache.blacklist_threshold as AvailabilityChecker sets it.
BlacklistThreshold == 1

Seasons == 0..MaxSeason

\* Canonical provider keys and country codes of the model.
ProviderKeys == {"netflix", "hulu"}
Countries == {"US", "DE"}
\* Provider names as the primary catalogue reports them.
RawNames == {"Netflix", "Hulu"}

(***************************************************************************)
(* Helpers.                                                                *)
(***************************************************************************)
SetMin(S) == CHOOSE m \in S : \A x \in S : m <= x

SetMax(S) == CHOOSE m \in S : \A x \in S : m >= x

RECURSIVE SortedSeqDescending(_)
SortedSeqDescending(S) ==
    IF S = {} THEN <<>>
    ELSE LET m == SetMax(S) IN <<m>> \o SortedSeqDescending(S \ {m})

\* Python's sorted(set): the ascending list of a set of integers.
RECURSIVE SortedSeq(_)
SortedSeq(S) ==
    IF S = {} THEN <<>>
    ELSE LET m == SetMin(S) IN <<m>> \o SortedSeq(S \ {m})

SeqToSet(s) == {s[i] : i \in 1..Len(s)}

\* Python's s[:n].
Prefix(s, n) == SubSeq(s, 1, IF n < Len(s) THEN n ELSE Len(s))

(***************************************************************************)
(* State.                                                                  *)
(***************************************************************************)
VARIABLES
    config,        \* Config: sync.action, sync.dry_run, streaming_providers
    entry,         \* the entry point the current call came in by
    pc,            \* "idle" | "seasons" (inside a per-season loop) | "done"
    series,        \* the Sonarr series record being processed
    lookup,        \* how the availability lookup of _check_series_availability went
    aggregated,    \* the aggregator's record: country -> set of provider keys
    availability,  \* the map handed to the planner, in dict (insertion) order
    planned,       \* whether _make_sync_decision has produced `decision`
    decision,      \* SyncDecision
    seasonIdx,     \* position of the per-season loop in decision.affected_seasons
    success_count, \* the loop's success_count
    result,        \* SyncResult (result.present = FALSE: none yet)
    pvrLog         \* Sonarr client operations invoked, in order, with outcomes

syncVars == <<config, entry, pc, series, lookup, aggregated, availability,
              planned, decision, seasonIdx, success_count, result, pvrLog>>

VARIABLES
    jellyseerr_client, \* which client object the checker holds (see ClientCall)
    breaker,       \* the CircuitBreaker: state, failure_count, last_failure_time
    blacklist,     \* table tvdb_blacklist: tvdb_id -> failure_count (0: no row)
    cache,         \* table availability_cache: key -> expires_at (-1: no row)
    now,           \* datetime.now()
    lookups,       \* lookups started so far
    wpc,           \* per worker: position inside _get_jellyseerr_availability
    wreq,          \* per worker: the (tvdb_id, imdb_id) being looked up
    wdata,         \* per worker: whether jellyseerr_data holds data
    returned,      \* what the lookup that returned last gave back
    reqs,          \* history: HTTP calls the worker's current lookup has issued
    blAtStart,     \* history: the identifier was blacklisted when the lookup began
    httpFails,     \* history: failed calls to the source in a row (capped)
    lastHttpFailAt,\* history: time of the last failed call (-1: none)
    failedIds      \* history: tvdb ids whose own lookup failed at the source

checkerVars == <<jellyseerr_client, breaker, blacklist, cache, now, lookups,
                 wpc, wreq, wdata, returned, reqs, blAtStart, httpFails,
                 lastHttpFailAt, failedIds>>

(***************************************************************************)
(* The quota-guarded clients: StreamingAvailabilityClient (secondary, a    *)
(* quota per day) and UtellyClient (tertiary, a quota per month).          *)
(***************************************************************************)
DailyQuota == 2
MonthlyQuota == 2
DaysPerMonth == 2
MaxDay == 2
MaxHttp == 3
NumCallers == 2

QuotaSources == {"streaming_availability", "utelly"}
Callers == 1..NumCallers
Days == 0..MaxDay

VARIABLES
    today,         \* datetime.now().date(), as a day number
    request_count, \* per client: _request_count
    request_window,\* per client: _request_date / _request_month
    cpc,           \* per caller: "idle" | "requesting" (inside _make_request)
    ccall,         \* per caller: the call in flight (client, day it was issued)
    httpIssued,    \* history: HTTP requests issued, per client (capped)
    okIssued,      \* history: per client and day, requests issued that day
                   \* whose call succeeded
    lastCall,      \* history: the call that passed _check_quota last
    last403        \* history: the HTTP 403 the secondary source answered last

quotaVars == <<today, request_count, request_window, cpc, ccall, httpIssued,
               okIssued, lastCall, last403>>

(***************************************************************************)
(* The aggregator with its three sources and the TMDB cache behind it:     *)
(* ProviderManager.get_series_availability.                                *)
(***************************************************************************)
MaxMgrLookups == 2
MaxMgrTime == 2
ProviderDataTtl == 1
IdMappingTtl == 3650

Digits == {"0", "1", "2", "3", "4", "5", "6", "7", "8", "9"}

\* IMDb ids as strings of characters: a well-formed one, a short one, and
\* the empty string.
BreakingBad == <<"t", "t", "0", "9", "0", "3", "7", "4", "7">>

ImdbIds == {BreakingBad, <<"t", "t", "1", "2">>, <<>>}

VARIABLES
    enabled,       \* self.providers: the sources that are enabled
    mnow,          \* datetime.now() of the cache
    idMapping,     \* tmdb_cache rows id_mapping:<imdb_id>: expires_at (-1: no row)
    providerCache, \* tmdb_cache row providers:<tmdb_id>: data and expires_at
    mpc,           \* position in get_series_availability
    mreq,          \* its arguments: imdb_id and countries
    mresult,       \* result: countries and metadata.sources
    mprimary,      \* history: result["countries"] when step 1 was over
    mIdx,          \* position of the per-country loop of the source in turn
    mData,         \* `results` of that loop: country -> provider keys
    mlog,          \* history: HTTP requests of this lookup, <<source, what>>
    mraised,       \* whether the lookup raised
    mfailures,     \* history: calls of this lookup that failed, <<source, what>>
    mquota,        \* history: sources that raised RateLimitError in this run
    mlookups       \* lookups started so far

mgrVars == <<enabled, mnow, idMapping, providerCache, mpc, mreq, mresult,
             mprimary, mIdx, mData, mlog, mraised, mfailures, mquota, mlookups>>

(***************************************************************************)
(* SyncEngine.run_sync over the series list of the PVR.                    *)
(***************************************************************************)
MaxPvrSeries == 2
MaxRuns == 2

VARIABLES
    pvr,           \* the series list get_monitored_series returns
    catalogue,     \* what the primary source holds about the series
    runPc,         \* "idle" | "loop" | "returned" | "raised"
    eligible,      \* eligible_series of the run in progress
    runIdx,        \* position of the loop over eligible_series
    runResults,    \* results of the run in progress
    runs           \* history: the lists the runs so far have returned

runVars == <<pvr, catalogue, runPc, eligible, runIdx, runResults, runs>>

(***************************************************************************)
(* The two caches exercised directly: AvailabilityCache (table             *)
(* availability_cache) and TMDBCache (table tmdb_cache).                   *)
(***************************************************************************)
MaxTtl == 2
CleanupInterval == 1

VARIABLES
    underTest,     \* which cache object the callers hold
    cacheData,     \* availability_cache: key -> the data column
    last_cleanup,  \* _last_cleanup of the cache under test
    lastRead,      \* history: the read that came last
    lastPut,       \* history: per key the last set with ttl > 0 not cleared
    tcOp           \* history: the operation on tmdb_cache that came last

cacheVars == <<underTest, cacheData, last_cleanup, lastRead, lastPut, tcOp>>

(***************************************************************************)
(* TMDBClient's sliding-window rate limiter, shared by the coroutines that *)
(* call the client.                                                        *)
(***************************************************************************)
RateLimit == 2
RateLimitWindow == 3
MaxRlTime == 5
MaxRlRequests == 5

VARIABLES
    rlNow,           \* datetime.now()
    rl_request_times,\* self._request_times
    rlPc,            \* per caller: "idle" or "sleeping" in asyncio.sleep
    rlWake,          \* per caller: when its sleep ends
    rlSent,          \* history: per instant, the requests sent at it
    rlLast           \* history: the _make_request that returned last

rlVars == <<rlNow, rl_request_times, rlPc, rlWake, rlSent, rlLast>>

(***************************************************************************)
(* A CircuitBreaker driven directly by the threads that share it.          *)
(***************************************************************************)
MaxBreakerTime == 4
MaxFailureCount == 4

\* The threads that share the breaker.
Threads == {"t1", "t2"}

VARIABLES
    bkPc,         \* per thread: "idle", or "running" func inside call()
    bkAdmit,      \* per thread: the breaker's state when call() let it in
    lastAttempt,  \* history: the can_attempt_call that came last
    lastCallEnd,  \* history: the call() that completed last
    recFails,     \* history: record_failure calls since the last record_success
    lastRecFailAt \* history: time of the last record_failure

bkVars == <<bkPc, bkAdmit, lastAttempt, lastCallEnd, recFails, lastRecFailAt>>

(***************************************************************************)
(* One provider of one country as the merges of the later sources see it.  *)
(***************************************************************************)
MaxDetails == 2

VARIABLES
    mergePc,      \* "idle", "input" (before the merge) or "merged"
    mergeSource,  \* the source whose data is merged
    mergeDetails, \* the details that source reports for the provider
    mergeOffer,   \* result["countries"][country][provider_name]
    mergeBefore   \* history: the offer as it was before the merge

mergeVars == <<mergePc, mergeSource, mergeDetails, mergeOffer, mergeBefore>>

(***************************************************************************)
(* _get_eligible_series on the list the PVR returns.                       *)
(***************************************************************************)
VARIABLES
    elPc,      \* "idle", "input" (before the call) or "done"
    elSeries,  \* what sonarr_client.get_monitored_series() returned
    elOut      \* the call's outcome: what it raised, or the eligible list

elVars == <<elPc, elSeries, elOut>>

(***************************************************************************)
(* TMDBCache.invalidate_provider_data on a table with several rows.        *)
(***************************************************************************)
VARIABLES
    invPc,      \* "idle", "input" (before the call) or "done"
    tmdb_cache, \* table tmdb_cache: the keys of its rows
    invCall,    \* the arguments of the call: tmdb_id and country ("": None)
    invBefore   \* history: the table before the call

invVars == <<invPc, tmdb_cache, invCall, invBefore>>

(***************************************************************************)
(* The same lookup repeated against the primary source behind TMDBCache.   *)
(***************************************************************************)
MaxRepeats == 3

VARIABLES
    hit_count,  \* TMDBCache._hit_count
    miss_count, \* TMDBCache._miss_count
    repId,      \* the IMDb id every lookup is about
    repDone,    \* history: lookups made so far
    repFetched  \* history: lookups that sent a request to the source

repVars == <<hit_count, miss_count, repId, repDone, repFetched>>

sourceVars == <<quotaVars, mgrVars, runVars, cacheVars, rlVars, bkVars,
                mergeVars,
            elVars,
            invVars,
            repVars>>

vars == <<syncVars, checkerVars, sourceVars>>

(***************************************************************************)
(* Aggregator: excludarr/provider_manager.py.                              *)
(***************************************************************************)
\* _normalize_provider_name on the names of the model: lower(), strip(),
\* ' ' -> '-', '+' -> '-plus', then the mappings table; "" stays "".
NormalizeProviderName(name) ==
    CASE name = "Netflix" -> "netflix"
      [] name = "Hulu"    -> "hulu"
      [] OTHER            -> name

\* _extract_tmdb_providers: the normalised, non-empty names of one country's
\* flatrate/free/ads lists.
ExtractTmdbProviders(country_data) ==
    {NormalizeProviderName(n) : n \in country_data} \ {""}

\* _get_tmdb_data: the primary source's answer, or None (found = FALSE) when the
\* series is not found or any error is raised; every exception is swallowed.
GetTmdbData(tmdb) ==
    IF tmdb.kind = "ok"
    THEN [found |-> TRUE, providers |-> tmdb.results]
    ELSE [found |-> FALSE, providers |-> <<>>]

\* get_series_availability: result["countries"] holds an entry for each
\* requested country the primary source reports.
GetSeriesAvailability(countries, tmdb) ==
    LET tmdb_data == GetTmdbData(tmdb)
        present == IF tmdb_data.found
                   THEN {c \in countries : c \in DOMAIN tmdb_data.providers}
                   ELSE {}
    IN [countries |-> [c \in present |->
                          ExtractTmdbProviders(tmdb_data.providers[c])],
        sources   |-> IF tmdb_data.found THEN <<"tmdb">> ELSE <<>>]

\* filter_by_user_providers: country -> whether any offered key is one of the
\* user's provider names.
FilterByUserProviders(availability_data, user_providers) ==
    LET normalized_user_providers ==
            {NormalizeProviderName(p) : p \in user_providers}
    IN [c \in DOMAIN availability_data.countries |->
           (availability_data.countries[c] \cap normalized_user_providers) # {}]

(***************************************************************************)
(* Engine: excludarr/sync.py.                                              *)
(***************************************************************************)
\* SyncEngine.__init__: self.user_providers and self.user_countries.
UserProviders(cfg) ==
    {cfg.streaming_providers[i].name : i \in 1..Len(cfg.streaming_providers)}
UserCountries(cfg) ==
    {cfg.streaming_providers[i].country : i \in 1..Len(cfg.streaming_providers)}

\* d[key] = value on a Python dict kept as a list of entries in insertion
\* order: an existing key keeps its place and takes the new value.
DictPut(d, rec) ==
    IF \E i \in 1..Len(d) : d[i].name = rec.name
    THEN [i \in 1..Len(d) |-> IF d[i].name = rec.name THEN rec ELSE d[i]]
    ELSE Append(d, rec)

\* The two "nothing available" returns of _check_series_availability.
RECURSIVE NothingAvailableAsAvailable(_, _)
NothingAvailableAsAvailable(providers, i) ==
    IF i = 0 THEN <<>>
    ELSE DictPut(NothingAvailableAsAvailable(providers, i - 1),
                 [name |-> providers[i].name, available |-> TRUE,
                  seasons |-> {}, country |-> ""])
RECURSIVE NothingAvailable(_, _)
NothingAvailable(providers, i) ==
    IF i = 0 THEN <<>>
    ELSE DictPut(NothingAvailable(providers, i - 1),
                 [name |-> providers[i].name, available |-> FALSE,
                  seasons |-> {}, country |-> ""])

\* The loop of _check_series_availability over config.streaming_providers.
RECURSIVE ConvertAvailability(_, _, _)
ConvertAvailability(providers, i, user_availability) ==
    IF i = 0 THEN <<>>
    ELSE LET provider == providers[i]
             country_available ==
                 IF provider.country \in DOMAIN user_availability
                 THEN user_availability[provider.country] ELSE FALSE
         IN DictPut(ConvertAvailability(providers, i - 1, user_availability),
                    [name |-> provider.name, available |-> country_available,
                     seasons |-> {}, country |-> provider.country])

\* How the lookup of _check_series_availability went.
LookupStatus(s, env) ==
    IF s.imdbId = "" THEN "no_imdb"
    ELSE IF env.raises THEN "raised"
    ELSE IF env.tmdb.kind # "ok" THEN env.tmdb.kind
    ELSE "ok"

\* _check_series_availability.
CheckSeriesAvailability(s, cfg, env) ==
    LET providers == cfg.streaming_providers IN
    IF s.imdbId = "" THEN NothingAvailable(providers, Len(providers))
    ELSE IF env.raises THEN NothingAvailable(providers, Len(providers))
    ELSE LET availability_data ==
                 GetSeriesAvailability(UserCountries(cfg), env.tmdb)
             user_availability ==
                 FilterByUserProviders(availability_data, UserProviders(cfg))
         IN ConvertAvailability(providers, Len(providers), user_availability)

\* monitored_seasons of _make_sync_decision.
MonitoredSeasons(s) == {n \in DOMAIN s.seasons : s.seasons[n]}

\* The three branches that compute matching_seasons for one provider.
MatchingSeasonsNoIntersect(available_seasons, monitored_seasons_set) ==
    IF available_seasons = {} /\ monitored_seasons_set = {} THEN {1}
    ELSE IF monitored_seasons_set = {} THEN {1}
    ELSE available_seasons
MatchingSeasons(available_seasons, monitored_seasons_set) ==
    IF available_seasons = {} /\ monitored_seasons_set = {} THEN {1}
    ELSE IF monitored_seasons_set = {} THEN {1}
    ELSE available_seasons \cap monitored_seasons_set

\* ... and total_monitored.
TotalMonitored(available_seasons, monitored_seasons_set) ==
    IF available_seasons = {} /\ monitored_seasons_set = {} THEN 1
    ELSE IF monitored_seasons_set = {} THEN 1
    ELSE Cardinality(monitored_seasons_set)

NoMatch == [found |-> FALSE, name |-> "", seasons |-> <<>>, total_monitored |-> 0]

\* The loop over availability.items(): the first provider with the most
\* matching seasons.
RECURSIVE BestMatch(_, _, _)
BestMatch(avail, i, monitored) ==
    IF i = 0 THEN [best |-> NoMatch, max_available_seasons |-> 0]
    ELSE LET prev == BestMatch(avail, i - 1, monitored)
             provider_data == avail[i]
             matching_seasons ==
                 MatchingSeasons(provider_data.seasons, monitored)
         IN IF /\ provider_data.available
               /\ matching_seasons # {}
               /\ Cardinality(matching_seasons) > prev.max_available_seasons
            THEN [best |-> [found |-> TRUE,
                            name |-> provider_data.name,
                            seasons |-> SortedSeq(matching_seasons),
                            total_monitored |->
                                TotalMonitored(provider_data.seasons, monitored)],
                  max_available_seasons |-> Cardinality(matching_seasons)]
            ELSE prev

\* The action and scope chosen once a best match exists.
DecisionScope(best_match) ==
    IF Len(best_match.seasons) = best_match.total_monitored
    THEN "series" ELSE "seasons"

DecisionActionNoDowngrade(best_match, cfgAction) ==
    IF cfgAction = "delete" THEN "delete" ELSE "unmonitor"
DecisionAction(best_match, cfgAction) ==
    IF Len(best_match.seasons) = best_match.total_monitored
    THEN (IF cfgAction = "delete" THEN "delete" ELSE "unmonitor")
    ELSE "unmonitor"

\* _make_sync_decision.  A None provider is "", None affected_seasons is <<>>.
MakeSyncDecision(s, avail, cfg) ==
    LET best_match == BestMatch(avail, Len(avail), MonitoredSeasons(s)).best IN
    IF best_match.found
    THEN [action |-> DecisionAction(best_match, cfg.action),
          should_process |-> TRUE,
          provider |-> best_match.name,
          affected_seasons |-> best_match.seasons,
          scope |-> DecisionScope(best_match)]
    ELSE [action |-> cfg.action,
          should_process |-> FALSE,
          provider |-> "",
          affected_seasons |-> <<>>,
          scope |-> "series"]


(***************************************************************************)
(* Sonarr client: excludarr/sonarr.py.  Each operation either returns True *)
(* ("ok"), returns a falsy value ("false", which only a substituted client *)
(* does) or raises ("raise"); the outcome is the environment's choice.     *)
(***************************************************************************)
Outcomes == {"ok", "false", "raise"}

Call(op, season, outcome) == [op |-> op, season |-> season, outcome |-> outcome]

\* delete_season_files: get_season_episodes, then one DELETE per episode file;
\* a failed DELETE is logged and skipped, a failed episode listing raises.
DeleteSeasonFilesCalls(n, episodes, files) ==
    IF episodes # "ok"
    THEN <<Call("delete_season_files", n, "raise")>>
    ELSE <<Call("delete_season_files", n, "ok")>>
         \o [i \in 1..Len(files) |-> Call("delete_episodefile", n, files[i])]

\* unmonitor_and_delete_season: what it returns and the operations it invokes.
\* Step 1 unmonitors (a failure aborts), step 2 deletes files (best effort).
UnmonitorAndDeleteSeasonNoAbort(n, unmonitor, episodes, files) ==
    [ret |-> "ok",
     calls |-> <<Call("unmonitor_and_delete_season", n, "ok"),
                 Call("unmonitor_season", n, unmonitor)>>
               \o DeleteSeasonFilesCalls(n, episodes, files)]
UnmonitorAndDeleteSeason(n, unmonitor, episodes, files) ==
    IF unmonitor # "ok"
    THEN [ret |-> "raise",
          calls |-> <<Call("unmonitor_and_delete_season", n, "raise"),
                      Call("unmonitor_season", n, unmonitor)>>]
    ELSE [ret |-> "ok",
          calls |-> <<Call("unmonitor_and_delete_season", n, "ok"),
                      Call("unmonitor_season", n, "ok")>>
                    \o DeleteSeasonFilesCalls(n, episodes, files)]

(***************************************************************************)
(* Executor: SyncEngine._execute_sync_decision.                            *)
(***************************************************************************)
NoResult == [present |-> FALSE, success |-> FALSE, action_taken |-> "",
             provider |-> "", listed |-> <<>>, error |-> FALSE]

Result(success, action_taken, provider, listed, error) ==
    [present |-> TRUE, success |-> success, action_taken |-> action_taken,
     provider |-> provider, listed |-> listed, error |-> error]

\* The branch `decision.scope == "seasons" and decision.affected_seasons`.
SeasonScoped(d) == d.scope = "seasons" /\ d.affected_seasons # <<>>

\* The dry-run branch: a message, no client call.
DryRunResult(d) ==
    Result(TRUE, d.action, d.provider,
           IF SeasonScoped(d) THEN d.affected_seasons ELSE <<>>, FALSE)

\* The outer `except Exception` of the live branch.
FailureResult(d) == Result(FALSE, d.action, d.provider, <<>>, TRUE)

\* The end of a per-season loop: success when success_count > 0, naming
\* affected_seasons[:success_count]; SyncError (caught) otherwise.
LoopResult(d, count) ==
    IF count > 0
    THEN Result(TRUE, d.action, d.provider, Prefix(d.affected_seasons, count), FALSE)
    ELSE FailureResult(d)

\* The test `if self.config.sync.dry_run` that opens _execute_sync_decision.
DryRunIgnored(cfg) == FALSE
DryRun(cfg) == cfg.dry_run

\* _execute_sync_decision up to its first client call or its return.
ExecuteSyncDecision(d) ==
    IF DryRun(config)
    THEN /\ result' = DryRunResult(d)
         /\ pc' = "done"
         /\ UNCHANGED <<pvrLog, seasonIdx, success_count>>
    ELSE IF d.action \notin {"unmonitor", "delete"}
    THEN /\ result' = FailureResult(d)
         /\ pc' = "done"
         /\ UNCHANGED <<pvrLog, seasonIdx, success_count>>
    ELSE IF SeasonScoped(d)
    THEN /\ pc' = "seasons"
         /\ seasonIdx' = 1
         /\ success_count' = 0
         /\ UNCHANGED <<pvrLog, result>>
    ELSE \E outcome \in Outcomes :
         /\ pvrLog' = Append(pvrLog,
                Call(IF d.action = "unmonitor" THEN "unmonitor_series"
                     ELSE "delete_series", -1, outcome))
         /\ result' = IF outcome = "ok"
                      THEN Result(TRUE, d.action, d.provider, <<>>, FALSE)
                      ELSE FailureResult(d)
         /\ pc' = "done"
         /\ UNCHANGED <<seasonIdx, success_count>>


(***************************************************************************)
(* Inputs.                                                                 *)
(***************************************************************************)
\* config.streaming_providers: 1..MaxUserProviders entries, each (name,
\* country) pair at most once (Config.validate_unique_providers).
StreamingProviderLists ==
    {l \in UNION {[1..n -> [name : ProviderKeys, country : Countries]] :
                     n \in 1..MaxUserProviders} :
        \A i, j \in DOMAIN l : i # j => l[i] # l[j]}

Configs == [action : {"unmonitor", "delete"}, dry_run : BOOLEAN,
            streaming_providers : StreamingProviderLists]

\* A Sonarr series: its IMDb id ("" when missing) and, per season number,
\* whether the season is monitored.
SeriesInputs == [imdbId : {"tt0903747", ""}, seasons : [Seasons -> BOOLEAN]]

\* What the primary source answers: per reported country the provider names
\* of its flatrate list, or not-found, or an error.
TmdbAnswers ==
    [kind : {"notfound", "error"}, results : {<<>>}]
    \cup [kind : {"ok"},
          results : UNION {[D -> SUBSET RawNames] : D \in SUBSET Countries}]

\* The environment of one lookup: whether the aggregator call itself raises,
\* and the primary source's answer.
LookupEnvs == [raises : BOOLEAN, tmdb : TmdbAnswers]

\* Availability maps a caller may hand to the planner.
AvailabilityInputs ==
    {<<[name |-> "netflix", available |-> a1, seasons |-> s1, country |-> "US"],
       [name |-> "hulu", available |-> a2, seasons |-> s2, country |-> "US"]>> :
        a1 \in BOOLEAN, a2 \in BOOLEAN, s1 \in SUBSET Seasons, s2 \in SUBSET Seasons}

\* Decisions a caller may hand to the executor.
DecisionInputs ==
    [action : {"unmonitor", "delete", "archive"}, should_process : {TRUE},
     provider : {"netflix"}, scope : {"series", "seasons"},
     affected_seasons : {SortedSeq(S) : S \in SUBSET Seasons}]

NoSeries == [imdbId |-> "", seasons |-> [n \in Seasons |-> FALSE]]
NoDecision == [action |-> "", should_process |-> FALSE, provider |-> "",
               affected_seasons |-> <<>>, scope |-> "series"]
NoAggregate == [countries |-> <<>>, sources |-> <<>>]

(***************************************************************************)
(* Part II.  Blacklist, circuit breaker and cache:                         *)
(* excludarr/availability_cache.py.                                        *)
(***************************************************************************)
Workers == 1..NumWorkers

\* TVDB ids of the model; tvdb_id 0 stands for a missing (None) id.
TvdbIds == {81189, 70327}

\* The series a lookup may be about: (tvdb_id, imdb_id), either one possibly
\* missing.
LookupInputs ==
    {[tvdb_id |-> 81189, imdb_id |-> "tt0903747"],
     [tvdb_id |-> 70327, imdb_id |-> ""],
     [tvdb_id |-> 0, imdb_id |-> "tt0944947"]}

NoLookup == [tvdb_id |-> 0, imdb_id |-> ""]

\* CircuitBreaker.__init__
NewBreaker == [state |-> "closed", failure_count |-> 0, last_failure_time |-> -1]

BreakerRecordFailureNeverOpens(b, t) ==
    [state |-> b.state, failure_count |-> b.failure_count + 1,
     last_failure_time |-> t]

\* CircuitBreaker.record_failure at time t
BreakerRecordFailure(b, t) ==
    LET c == b.failure_count + 1
    IN [state |-> IF c >= FailureThreshold THEN "open" ELSE b.state,
        failure_count |-> c,
        last_failure_time |-> t]

\* CircuitBreaker.record_success
BreakerRecordSuccess(b) ==
    [state |-> "closed", failure_count |-> 0, last_failure_time |-> -1]

\* CircuitBreaker.can_attempt_call at time t: the answer and the breaker after
\* it (the call itself moves an open breaker to half-open).
CanAttemptCall(b, t) ==
    CASE b.state = "closed" -> [ret |-> TRUE, breaker |-> b]
      [] b.state = "open" ->
            IF b.last_failure_time # -1
                 /\ t - b.last_failure_time > RecoveryTimeout
            THEN [ret |-> TRUE, breaker |-> [b EXCEPT !.state = "half-open"]]
            ELSE [ret |-> FALSE, breaker |-> b]
      [] b.state = "half-open" -> [ret |-> TRUE, breaker |-> b]
      [] OTHER -> [ret |-> FALSE, breaker |-> b]

BreakerAfterCallIgnoresSuccess(b, r, t) ==
    IF r = "raise" THEN BreakerRecordFailure(b, t) ELSE b

\* CircuitBreaker.call once func has come back with r ("data", "none" or
\* "raise"): a success is recorded only in half-open, a failure always.
BreakerAfterCall(b, r, t) ==
    IF r = "raise" THEN BreakerRecordFailure(b, t)
    ELSE IF b.state = "half-open" THEN BreakerRecordSuccess(b)
    ELSE b

\* AvailabilityCache.is_blacklisted; the strict comparison is a variant of it.
IsBlacklistedStrict(bl, tvdb_id) == bl[tvdb_id] # 0 /\ bl[tvdb_id] > BlacklistThreshold

IsBlacklisted(bl, tvdb_id) == bl[tvdb_id] # 0 /\ bl[tvdb_id] >= BlacklistThreshold

\* AvailabilityCache.add_to_blacklist, which is all that
\* AvailabilityCache.record_failure changes.
AddToBlacklist(bl, tvdb_id) == [bl EXCEPT ![tvdb_id] = bl[tvdb_id] + 1]

\* AvailabilityCache._generate_key: the providers part is the same for every
\* lookup of one checker, the rest names the ids that are present.
GenerateKey(inp) == <<inp.tvdb_id, inp.imdb_id>>

CacheKeys == {GenerateKey(inp) : inp \in LookupInputs}

\* AvailabilityCache.get at time t: a row that has not expired is a hit; an
\* expired row is deleted.
CacheGet(c, key, t) ==
    IF c[key] = -1 THEN [found |-> FALSE, cache |-> c]
    ELSE IF t <= c[key] THEN [found |-> TRUE, cache |-> c]
    ELSE [found |-> FALSE, cache |-> [c EXCEPT ![key] = -1]]

\* AvailabilityCache.set at time t with the default TTL.
CacheSet(c, key, t) == [c EXCEPT ![key] = t + CacheTtl]

(***************************************************************************)
(* The Jellyseerr client as the checker sees it.                           *)
(***************************************************************************)
\* What the Jellyseerr server does with a request about a series: it has
\* data on one series of the model only, and any request may fail.
HttpOutcomes(inp) ==
    IF inp.tvdb_id = 81189 THEN {"data", "notfound", "error"}
    ELSE {"notfound", "error"}

\* JellyseerrClient.get_series_availability: every exception of the request
\* is caught and turned into None.
JellyseerrClientCall(http) == IF http = "data" THEN "data" ELSE "none"

\* The client of the test suite, a Mock whose side_effect is JellyseerrError
\* when the request fails (the behaviour get_series_availability documents
\* under "Raises").
MockClientCall(http) ==
    CASE http = "data" -> "data"
      [] http = "notfound" -> "none"
      [] OTHER -> "raise"

ClientCall(client, http) ==
    IF client = "JellyseerrClient" THEN JellyseerrClientCall(http)
    ELSE MockClientCall(http)

\* The checker before any lookup.
InitCheckerVars ==
    /\ breaker = NewBreaker
    /\ blacklist = [id \in TvdbIds |-> 0]
    /\ cache = [k \in CacheKeys |-> -1]
    /\ now = 0
    /\ lookups = 0
    /\ wpc = [w \in Workers |-> "idle"]
    /\ wreq = [w \in Workers |-> NoLookup]
    /\ wdata = [w \in Workers |-> FALSE]
    /\ returned = [res |-> "none", blAtStart |-> FALSE, reqs |-> 0]
    /\ reqs = [w \in Workers |-> 0]
    /\ blAtStart = [w \in Workers |-> FALSE]
    /\ httpFails = 0
    /\ lastHttpFailAt = -1
    /\ failedIds = {}

\* The quota-guarded clients after construction, on day 0.
NoCall == [src |-> "none", okBefore |-> 0, quota |-> 0, raised |-> "none",
           requested |-> FALSE, day |-> 0, since403 |-> FALSE,
           saturated |-> FALSE]
No403 == [day |-> -1, window |-> -1, count |-> 0]

InitQuotaVars ==
    /\ today = 0
    /\ request_count = [s \in QuotaSources |-> 0]
    /\ request_window = [s \in QuotaSources |-> 0]
    /\ cpc = [c \in Callers |-> "idle"]
    /\ ccall = [c \in Callers |-> [src |-> "none", day |-> 0]]
    /\ httpIssued = [s \in QuotaSources |-> 0]
    /\ okIssued = [s \in QuotaSources |-> [d \in Days |-> 0]]
    /\ lastCall = NoCall
    /\ last403 = No403

\* The aggregator after construction, nothing cached.
NoRecord == [countries |-> <<>>, sources |-> <<>>]
NoProviderData == [present |-> FALSE, data |-> <<>>, expires_at |-> 0]
NoRequest == [imdb_id |-> <<>>, countries |-> <<>>]

InitMgrState ==
    /\ mnow = 0
    /\ idMapping = [i \in ImdbIds |-> -1]
    /\ providerCache = NoProviderData
    /\ mpc = "idle"
    /\ mreq = NoRequest
    /\ mresult = NoRecord
    /\ mprimary = <<>>
    /\ mIdx = 0
    /\ mData = <<>>
    /\ mlog = {}
    /\ mraised = FALSE
    /\ mfailures = {}
    /\ mquota = {}
    /\ mlookups = 0

InitMgrVars ==
    /\ enabled = {"tmdb"}
    /\ InitMgrState

\* The engine before any run, with an empty PVR.
InitRunState ==
    /\ runPc = "idle"
    /\ eligible = <<>>
    /\ runIdx = 0
    /\ runResults = <<>>
    /\ runs = <<>>

InitRunVars ==
    /\ pvr = <<>>
    /\ catalogue = [find |-> "notfound", watch |-> "ok", results |-> <<>>]
    /\ InitRunState

\* The caches after construction.
NoRead == [kind |-> "none", hit |-> FALSE, expires_at |-> 0, at |-> 0,
           value |-> <<>>, fresh |-> FALSE, put |-> <<>>]
NoPut == [present |-> FALSE, v |-> <<>>, until |-> 0]
NoOp == [name |-> "none", removed |-> 0]

InitCacheState ==
    /\ cacheData = [k \in CacheKeys |-> <<>>]
    /\ last_cleanup = 0
    /\ lastRead = NoRead
    /\ lastPut = [k \in CacheKeys |-> NoPut]
    /\ tcOp = NoOp

InitCacheVars ==
    /\ underTest = "none"
    /\ InitCacheState

\* TMDBClient.__init__: no request yet.
InitRlVars ==
    /\ rlNow = 0
    /\ rl_request_times = <<>>
    /\ rlPc = [c \in Callers |-> "idle"]
    /\ rlWake = [c \in Callers |-> 0]
    /\ rlSent = [t \in 0..MaxRlTime |-> 0]
    /\ rlLast = [valid |-> FALSE, status |-> 200, raised |-> "none",
                 attempts |-> 0]

\* No call of the breaker yet.
NoAttempt == [valid |-> FALSE, ret |-> FALSE, at |-> 0, before |-> "closed",
              fails |-> 0, lastFail |-> 0]
NoCallEnd == [valid |-> FALSE, outcome |-> "none", at |-> 0,
              before |-> "closed", after |-> NewBreaker]

InitBkVars ==
    /\ bkPc = [c \in Threads |-> "idle"]
    /\ bkAdmit = [c \in Threads |-> "none"]
    /\ lastAttempt = NoAttempt
    /\ lastCallEnd = NoCallEnd
    /\ recFails = 0
    /\ lastRecFailAt = 0

\* A key that the dict does not hold.
Missing == "<missing>"

\* The provider is not in the country's dict.
NoOffer == [available |-> Missing, type |-> Missing, link |-> Missing,
            quality |-> Missing, expiry_date |-> Missing, icon |-> Missing,
            source |-> Missing]

InitMergeVars ==
    /\ mergePc = "idle"
    /\ mergeSource = "tmdb"
    /\ mergeDetails = <<>>
    /\ mergeOffer = NoOffer
    /\ mergeBefore = NoOffer

NoEligible == [raised |-> "none", eligible_series |-> <<>>]

InitElVars ==
    /\ elPc = "idle"
    /\ elSeries = <<>>
    /\ elOut = NoEligible

InitInvVars ==
    /\ invPc = "idle"
    /\ tmdb_cache = {}
    /\ invCall = [tmdb_id |-> 0, country |-> ""]
    /\ invBefore = {}

InitRepVars ==
    /\ hit_count = 0
    /\ miss_count = 0
    /\ repId = <<>>
    /\ repDone = 0
    /\ repFetched = 0

InitSourceVars ==
    /\ InitQuotaVars
    /\ InitMgrVars
    /\ InitRunVars
    /\ InitCacheVars
    /\ InitRlVars
    /\ InitBkVars
    /\ InitMergeVars
    /\ InitElVars
    /\ InitInvVars
    /\ InitRepVars
    /\ InitRlVars

(***************************************************************************)
(* Actions of the engine.                                                  *)
(***************************************************************************)
InitSync ==
    /\ entry = "none"
    /\ pc = "idle"
    /\ series = NoSeries
    /\ lookup = "none"
    /\ aggregated = NoAggregate
    /\ availability = <<>>
    /\ planned = FALSE
    /\ decision = NoDecision
    /\ seasonIdx = 0
    /\ success_count = 0
    /\ result = NoResult
    /\ pvrLog = <<>>

Init ==
    /\ config \in Configs
    /\ InitSync
    /\ jellyseerr_client = "JellyseerrClient"
    /\ InitCheckerVars
    /\ InitSourceVars

\* _process_series: availability lookup, planner, then the executor, or the
\* "no action" result when the decision is not to process.
ProcessSeries ==
    /\ pc = "idle"
    /\ \E s \in SeriesInputs, env \in LookupEnvs :
        LET avail == CheckSeriesAvailability(s, config, env)
            d == MakeSyncDecision(s, avail, config)
        IN /\ entry' = "process_series"
           /\ series' = s
           /\ lookup' = LookupStatus(s, env)
           /\ aggregated' = IF LookupStatus(s, env) \in {"no_imdb", "raised"}
                            THEN NoAggregate
                            ELSE GetSeriesAvailability(UserCountries(config), env.tmdb)
           /\ availability' = avail
           /\ planned' = TRUE
           /\ decision' = d
           /\ IF d.should_process
              THEN ExecuteSyncDecision(d)
              ELSE /\ result' = Result(TRUE, "none", "", <<>>, FALSE)
                   /\ pc' = "done"
                   /\ UNCHANGED <<pvrLog, seasonIdx, success_count>>
    /\ UNCHANGED <<config, checkerVars, sourceVars>>

\* _execute_sync_decision called with a decision of the caller's.
ExecuteDecision ==
    /\ pc = "idle"
    /\ \E d \in DecisionInputs :
        /\ entry' = "execute_sync_decision"
        /\ decision' = d
        /\ ExecuteSyncDecision(d)
    /\ UNCHANGED <<config, series, lookup, aggregated, availability, planned,
                   checkerVars, sourceVars>>

\* One round of the loop of a season-scoped unmonitor; the last round returns.
UnmonitorSeasonStep ==
    /\ pc = "seasons"
    /\ decision.action = "unmonitor"
    /\ \E outcome \in Outcomes :
        LET n == decision.affected_seasons[seasonIdx]
            count == success_count + (IF outcome = "ok" THEN 1 ELSE 0)
        IN /\ pvrLog' = Append(pvrLog, Call("unmonitor_season", n, outcome))
           /\ success_count' = count
           /\ IF seasonIdx = Len(decision.affected_seasons)
              THEN /\ result' = LoopResult(decision, count)
                   /\ pc' = "done"
                   /\ UNCHANGED seasonIdx
              ELSE /\ seasonIdx' = seasonIdx + 1
                   /\ UNCHANGED <<result, pc>>
    /\ UNCHANGED <<config, entry, series, lookup, aggregated, availability,
                   planned, decision, checkerVars, sourceVars>>

\* One round of the loop of a season-scoped delete; the last round returns.
DeleteSeasonStep ==
    /\ pc = "seasons"
    /\ decision.action = "delete"
    /\ \E unmonitor \in Outcomes, episodes \in {"ok", "raise"},
          files \in UNION {[1..k -> Outcomes] : k \in 0..MaxFiles} :
        LET n == decision.affected_seasons[seasonIdx]
            r == UnmonitorAndDeleteSeason(n, unmonitor, episodes, files)
            count == success_count + (IF r.ret = "ok" THEN 1 ELSE 0)
        IN /\ pvrLog' = pvrLog \o r.calls
           /\ success_count' = count
           /\ IF seasonIdx = Len(decision.affected_seasons)
              THEN /\ result' = LoopResult(decision, count)
                   /\ pc' = "done"
                   /\ UNCHANGED seasonIdx
              ELSE /\ seasonIdx' = seasonIdx + 1
                   /\ UNCHANGED <<result, pc>>
    /\ UNCHANGED <<config, entry, series, lookup, aggregated, availability,
                   planned, decision, checkerVars, sourceVars>>

\* The engine run on one series.  _process_series never enters a per-season
\* loop (see EngineNeverLoops below), so its specification has one action.
Next == ProcessSeries

Spec == Init /\ [][Next]_vars

(***************************************************************************)
(* The executor on its own: _execute_sync_decision applied to a decision   *)
(* of the caller's, with the Sonarr client behind it.                      *)
(***************************************************************************)
InitExecutor ==
    /\ Init
    /\ config.streaming_providers = <<[name |-> "netflix", country |-> "US"]>>

NextExecutor == ExecuteDecision \/ UnmonitorSeasonStep \/ DeleteSeasonStep

SpecExecutor == InitExecutor /\ [][NextExecutor]_vars

(***************************************************************************)
(* The planner on its own: _make_sync_decision applied to a series and an  *)
(* availability map of the caller's.                                       *)
(***************************************************************************)
InitPlanner ==
    /\ Init
    /\ config.streaming_providers = <<[name |-> "netflix", country |-> "US"]>>

MakeDecision ==
    /\ pc = "idle"
    /\ \E s \in SeriesInputs, avail \in AvailabilityInputs :
        /\ s.imdbId # ""
        /\ entry' = "make_sync_decision"
        /\ series' = s
        /\ availability' = avail
        /\ planned' = TRUE
        /\ decision' = MakeSyncDecision(s, avail, config)
        /\ pc' = "done"
    /\ UNCHANGED <<config, lookup, aggregated, seasonIdx, success_count,
                   result, pvrLog, checkerVars, sourceVars>>

NextPlanner == MakeDecision

SpecPlanner == InitPlanner /\ [][NextPlanner]_vars

(***************************************************************************)
(* The availability checker: AvailabilityChecker._get_jellyseerr_availability *)
(* of excludarr/availability.py, run by Workers that share the cache, the   *)
(* blacklist and the breaker.  A lookup is cut where a worker can be        *)
(* overtaken by another: after the guards and the cache read, and around    *)
(* each request to the source.                                              *)
(***************************************************************************)
\* The history of calls to the source after one of them came back.
CallReturned(http) ==
    /\ httpFails' = IF http = "error"
                    THEN (IF httpFails < FailureThreshold THEN httpFails + 1
                          ELSE httpFails)
                    ELSE 0
    /\ lastHttpFailAt' = IF http = "error" THEN now ELSE lastHttpFailAt

\* What a lookup gave back, with its history.
Returned(res, listed, n) == [res |-> res, blAtStart |-> listed, reqs |-> n]

\* The end of a lookup: data is cached and returned, no data returns None.
\* The worker's locals go with the call.
FinishLookup(w, data) ==
    /\ wpc' = [wpc EXCEPT ![w] = "idle"]
    /\ wreq' = [wreq EXCEPT ![w] = NoLookup]
    /\ wdata' = [wdata EXCEPT ![w] = FALSE]
    /\ returned' = Returned(IF data THEN "data" ELSE "none", blAtStart[w],
                            reqs[w])
    /\ reqs' = [reqs EXCEPT ![w] = 0]
    /\ blAtStart' = [blAtStart EXCEPT ![w] = FALSE]
    /\ cache' = IF data THEN CacheSet(cache, GenerateKey(wreq[w]), now)
                ELSE cache

\* Lines 168-194: the blacklist gate, the breaker gate, the cache read.
BeginLookup(w) ==
    /\ wpc[w] = "idle"
    /\ lookups < MaxLookups
    /\ \E inp \in LookupInputs :
        LET listed == inp.tvdb_id # 0 /\ IsBlacklisted(blacklist, inp.tvdb_id)
            att == CanAttemptCall(breaker, now)
            hit == CacheGet(cache, GenerateKey(inp), now)
            \* history: blacklisted by the definition failure_count >= threshold
            began == inp.tvdb_id # 0
                       /\ blacklist[inp.tvdb_id] >= BlacklistThreshold
        IN /\ lookups' = lookups + 1
           /\ IF listed
              THEN /\ returned' = Returned("blacklisted", began, 0)
                   /\ UNCHANGED <<wpc, wreq, blAtStart, breaker, cache>>
              ELSE IF ~att.ret
              THEN /\ returned' = Returned("circuit_breaker_open", began, 0)
                   /\ breaker' = att.breaker
                   /\ UNCHANGED <<wpc, wreq, blAtStart, cache>>
              ELSE /\ breaker' = att.breaker
                   /\ cache' = hit.cache
                   /\ IF hit.found
                      THEN /\ returned' = Returned("cache", began, 0)
                           /\ UNCHANGED <<wpc, wreq, blAtStart>>
                      ELSE /\ wreq' = [wreq EXCEPT ![w] = inp]
                           /\ blAtStart' = [blAtStart EXCEPT ![w] = began]
                           /\ wpc' = [wpc EXCEPT ![w] =
                                         IF inp.tvdb_id # 0 THEN "query"
                                         ELSE "fallback"]
                           /\ UNCHANGED returned
    /\ UNCHANGED <<jellyseerr_client, blacklist, now, wdata, reqs, httpFails,
                   lastHttpFailAt, failedIds, syncVars, sourceVars>>

\* Lines 204-209: circuit_breaker.call for the TVDB id.  The breaker either
\* lets the request out or raises CircuitBreakerError, which the handler of
\* lines 211-214 catches like any exception of the lookup.
TvdbCall(w) ==
    /\ wpc[w] = "query"
    /\ LET att == CanAttemptCall(breaker, now)
       IN IF att.ret
          THEN /\ breaker' = att.breaker
               /\ reqs' = [reqs EXCEPT ![w] = reqs[w] + 1]
               /\ wpc' = [wpc EXCEPT ![w] = "tvdb_http"]
               /\ UNCHANGED blacklist
          ELSE /\ blacklist' = AddToBlacklist(blacklist, wreq[w].tvdb_id)
               /\ wpc' = [wpc EXCEPT ![w] = "fallback"]
               /\ UNCHANGED <<breaker, reqs>>
    /\ UNCHANGED <<jellyseerr_client, cache, now, lookups, wreq, wdata,
                   returned, blAtStart, httpFails, lastHttpFailAt, failedIds,
                   syncVars, sourceVars>>

\* The TVDB request comes back: CircuitBreaker.call records the outcome, and
\* an exception is recorded against the TVDB id (lines 211-214).
TvdbReturn(w) ==
    /\ wpc[w] = "tvdb_http"
    /\ \E http \in HttpOutcomes(wreq[w]) :
        LET r == ClientCall(jellyseerr_client, http)
        IN /\ breaker' = BreakerAfterCall(breaker, r, now)
           /\ blacklist' = IF r = "raise"
                           THEN AddToBlacklist(blacklist, wreq[w].tvdb_id)
                           ELSE blacklist
           /\ wdata' = [wdata EXCEPT ![w] = (r = "data")]
           /\ failedIds' = IF http = "error"
                           THEN failedIds \cup {wreq[w].tvdb_id}
                           ELSE failedIds
           /\ CallReturned(http)
    /\ wpc' = [wpc EXCEPT ![w] = "fallback"]
    /\ UNCHANGED <<jellyseerr_client, cache, now, lookups, wreq, returned,
                   reqs, blAtStart, syncVars, sourceVars>>

\* Lines 216-238: the IMDb fallback when the TVDB id gave no data, else the
\* end of the lookup.  A rejection by the breaker is caught at lines 224-225.
ImdbCall(w) ==
    /\ wpc[w] = "fallback"
    /\ IF ~wdata[w] /\ wreq[w].imdb_id # ""
       THEN LET att == CanAttemptCall(breaker, now)
            IN IF att.ret
               THEN /\ breaker' = att.breaker
                    /\ reqs' = [reqs EXCEPT ![w] = reqs[w] + 1]
                    /\ wpc' = [wpc EXCEPT ![w] = "imdb_http"]
                    /\ UNCHANGED <<wreq, wdata, returned, blAtStart, cache>>
               ELSE /\ FinishLookup(w, FALSE)
                    /\ UNCHANGED breaker
       ELSE /\ FinishLookup(w, wdata[w])
            /\ UNCHANGED breaker
    /\ UNCHANGED <<jellyseerr_client, blacklist, now, lookups, httpFails,
                   lastHttpFailAt, failedIds, syncVars, sourceVars>>

\* The IMDb request comes back: CircuitBreaker.call records the outcome;
\* nothing is recorded against an identifier.
ImdbReturn(w) ==
    /\ wpc[w] = "imdb_http"
    /\ \E http \in HttpOutcomes(wreq[w]) :
        LET r == ClientCall(jellyseerr_client, http)
        IN /\ breaker' = BreakerAfterCall(breaker, r, now)
           /\ FinishLookup(w, r = "data")
           /\ CallReturned(http)
    /\ UNCHANGED <<jellyseerr_client, blacklist, now, lookups, failedIds,
                   syncVars, sourceVars>>

\* AvailabilityCache.clear_blacklist
ClearBlacklist ==
    /\ blacklist' = [id \in TvdbIds |-> 0]
    /\ failedIds' = {}
    /\ UNCHANGED <<jellyseerr_client, breaker, cache, now, lookups, wpc, wreq,
                   wdata, returned, reqs, blAtStart, httpFails, lastHttpFailAt,
                   syncVars, sourceVars>>

\* Time passes.
Tick ==
    /\ now < MaxTime
    /\ now' = now + 1
    /\ UNCHANGED <<jellyseerr_client, breaker, blacklist, cache, lookups, wpc,
                   wreq, wdata, returned, reqs, blAtStart, httpFails,
                   lastHttpFailAt, failedIds, syncVars, sourceVars>>

InitChecker ==
    /\ config = [action |-> "unmonitor", dry_run |-> TRUE,
                 streaming_providers |-> <<[name |-> "netflix", country |-> "US"]>>]
    /\ InitSync
    /\ jellyseerr_client \in {"JellyseerrClient", "Mock"}
    /\ InitCheckerVars
    /\ InitSourceVars

NextChecker ==
    \/ \E w \in Workers : BeginLookup(w)
    \/ \E w \in Workers : TvdbCall(w)
    \/ \E w \in Workers : TvdbReturn(w)
    \/ \E w \in Workers : ImdbCall(w)
    \/ \E w \in Workers : ImdbReturn(w)
    \/ ClearBlacklist
    \/ Tick

SpecChecker == InitChecker /\ [][NextChecker]_vars


(***************************************************************************)
(* Properties of the engine.                                               *)
(***************************************************************************)
\* The Sonarr operations that change the PVR.
MutationOps == {"unmonitor_series", "unmonitor_season", "delete_series",
                "delete_season_files", "delete_episodefile",
                "unmonitor_and_delete_season"}

NoMutation == \A i \in 1..Len(pvrLog) : pvrLog[i].op \notin MutationOps

\* _process_series only ever hands the planner empty season lists, and the
\* planner then never chooses scope "seasons": the engine never loops.
EngineNeverLoops == pc # "seasons"

\* C1: under dry-run, executing a decision of any action and scope invokes no
\* Sonarr mutation and returns success with action_taken = decision.action.
C1_DryRunNoMutation ==
    config.dry_run =>
        /\ NoMutation
        /\ pc # "seasons"
        /\ result.present =>
              (result.success /\ result.action_taken = decision.action)

C1_Witness ==
    /\ config.dry_run
    /\ result.present
    /\ decision.action = "delete"
    /\ decision.scope = "seasons"
    /\ Len(decision.affected_seasons) >= 2

\* Some subscribed (provider key, country) pair occurs in the aggregated
\* availability.
SubscribedPairOffered ==
    \E i \in 1..Len(config.streaming_providers) :
        LET p == config.streaming_providers[i]
        IN /\ p.country \in DOMAIN aggregated.countries
           /\ p.name \in aggregated.countries[p.country]

\* C2: a series for which no subscribed (provider key, country) pair occurs
\* in the aggregated availability gets action None and no Sonarr mutation.
C2_NoPairNoAction ==
    (entry = "process_series" /\ ~SubscribedPairOffered) =>
        /\ ~decision.should_process
        /\ result.action_taken = "none"
        /\ NoMutation

\* C35: a provider subscribed in several countries is available to the
\* planner when the series matches in any one of them: the availability of
\* one (provider, country) pair is not overwritten by that of another pair
\* with the same provider key.
C35_AvailableInAnySubscribedCountry ==
    entry = "process_series" =>
        \A i \in 1..Len(config.streaming_providers) :
            LET p == config.streaming_providers[i]
            IN  (/\ p.country \in DOMAIN aggregated.countries
                 /\ p.name \in aggregated.countries[p.country])
                    => \E j \in 1..Len(availability) :
                           /\ availability[j].name = p.name
                           /\ availability[j].available

\* C3: when the availability lookup fails or cannot be made (no IMDb id, the
\* source errs or does not know the series, the aggregator raises), the
\* series still gets a result, with action None, and nothing is mutated.
C3_FailedLookupNoAction ==
    (entry = "process_series"
        /\ lookup \in {"no_imdb", "raised", "error", "notfound"}) =>
        /\ result.present
        /\ result.action_taken = "none"
        /\ NoMutation

C3_Witness ==
    /\ entry = "process_series"
    /\ lookup = "raised"
    /\ ~config.dry_run
    /\ MonitoredSeasons(series) = {}
    /\ result.present

\* Only a strict, non-empty subset of the monitored seasons is available:
\* some available provider matches a monitored season, none matches all.
PartiallyAvailable ==
    LET M == MonitoredSeasons(series)
        avail == {i \in 1..Len(availability) : availability[i].available}
    IN /\ M # {}
       /\ \E i \in avail : availability[i].seasons \cap M # {}
       /\ \A i \in avail : availability[i].seasons \cap M # M

\* C4: the planner never emits Delete with scope Seasons; partial
\* availability under a configured Delete is planned as Unmonitor.
C4_NoSeasonScopedDelete ==
    planned =>
        /\ ~(decision.action = "delete" /\ decision.scope = "seasons")
        /\ (PartiallyAvailable /\ config.action = "delete") =>
              /\ decision.should_process
              /\ decision.action = "unmonitor"
              /\ decision.scope = "seasons"

C4_Witness ==
    /\ planned
    /\ PartiallyAvailable
    /\ config.action = "delete"
    /\ decision.scope = "seasons"

DeleteOps == {"delete_season_files", "delete_episodefile"}

\* C5: in a season-scoped delete, files of season n are deleted only after
\* unmonitor_season(n) has returned success; after a failed unmonitor of
\* season n nothing of season n is deleted.
C5_UnmonitorBeforeDelete ==
    \A j \in 1..Len(pvrLog) :
        /\ pvrLog[j].op \in DeleteOps =>
              \E i \in 1..(j - 1) :
                  pvrLog[i] = Call("unmonitor_season", pvrLog[j].season, "ok")
        /\ (pvrLog[j].op = "unmonitor_season" /\ pvrLog[j].outcome # "ok") =>
              \A k \in (j + 1)..Len(pvrLog) :
                  ~(pvrLog[k].op \in DeleteOps
                      /\ pvrLog[k].season = pvrLog[j].season)

C5_Witness ==
    /\ decision.action = "delete"
    /\ decision.scope = "seasons"
    /\ pc = "done"
    /\ \E j \in 1..Len(pvrLog) :
          /\ pvrLog[j].op = "unmonitor_season"
          /\ pvrLog[j].outcome # "ok"
          /\ \E k \in (j + 1)..Len(pvrLog) : pvrLog[k].op = "delete_episodefile"

\* The seasons whose unmonitor_season call returned success.
SucceededSeasons ==
    {pvrLog[i].season : i \in {j \in 1..Len(pvrLog) :
                                 /\ pvrLog[j].op = "unmonitor_season"
                                 /\ pvrLog[j].outcome = "ok"}}

\* C31: for a live season-scoped unmonitor the result is success if and only
\* if at least one unmonitor_season call succeeded, and the seasons the
\* result lists are exactly the seasons whose call succeeded.
C31_ListsSucceededSeasons ==
    (/\ pc = "done"
     /\ ~config.dry_run
     /\ decision.action = "unmonitor"
     /\ SeasonScoped(decision))
        => /\ result.success <=> SucceededSeasons # {}
           /\ result.success => SeqToSet(result.listed) = SucceededSeasons

\* The calls the executor itself makes, one per round of a per-season loop.
LoopCalls ==
    SelectSeq(pvrLog, LAMBDA c : c.op = (IF decision.action = "unmonitor"
                                         THEN "unmonitor_season"
                                         ELSE "unmonitor_and_delete_season"))

\* C32: within a season-scoped decision the per-season Sonarr calls are made
\* in strictly ascending season-number order, one season at a time: all
\* calls about one season come before the first call about the next.
C32_AscendingSeasonOrder ==
    (/\ pc \in {"seasons", "done"}
     /\ ~config.dry_run
     /\ decision.action \in {"unmonitor", "delete"}
     /\ SeasonScoped(decision))
        => /\ \A i, j \in 1..Len(LoopCalls) :
                  i < j => LoopCalls[i].season < LoopCalls[j].season
           /\ \A i, j \in 1..Len(pvrLog) :
                  i < j => pvrLog[i].season <= pvrLog[j].season
           /\ Len(LoopCalls) = IF pc = "done"
                               THEN Len(decision.affected_seasons)
                               ELSE seasonIdx - 1

C32_Witness ==
    /\ pc = "done"
    /\ SeasonScoped(decision)
    /\ Len(LoopCalls) = 3
    /\ LoopCalls[2].outcome # "ok"

\* C34: season 0 (specials) is not part of the monitored set the planner
\* works with: it is never among a decision's affected_seasons, and when a
\* provider offers every monitored season other than 0 the decision has
\* scope "series", whether or not season 0 is monitored.
C34_SpecialsExcluded ==
    planned =>
        /\ 0 \notin SeqToSet(decision.affected_seasons)
        /\ LET M == MonitoredSeasons(series) \ {0}
           IN  (/\ M # {}
                /\ \E i \in 1..Len(availability) :
                      /\ availability[i].available
                      /\ M \subseteq availability[i].seasons)
                   => decision.should_process /\ decision.scope = "series"

\* C6: a decision with scope Seasons names at least one season, and only
\* monitored seasons of the series.
C6_SeasonsScopeWithinMonitored ==
    (planned /\ decision.scope = "seasons") =>
        /\ decision.affected_seasons # <<>>
        /\ SeqToSet(decision.affected_seasons) \subseteq MonitoredSeasons(series)

C6_Witness ==
    /\ planned
    /\ decision.scope = "seasons"
    /\ Len(decision.affected_seasons) >= 1
    /\ \E i \in 1..Len(availability) :
          /\ availability[i].available
          /\ ~(availability[i].seasons \subseteq MonitoredSeasons(series))

\* A subscribed provider carries the series, and season data is absent on
\* either side: no available provider reports seasons, or the series
\* record has no monitored season.
AvailableWithoutSeasonData ==
    /\ \E i \in 1..Len(availability) : availability[i].available
    /\ \/ MonitoredSeasons(series) = {}
       \/ \A i \in 1..Len(availability) :
              availability[i].available => availability[i].seasons = {}

\* C7: available on a subscribed provider with season data absent on either
\* side, the series takes part in the configured action with scope Series.
C7_DegradesToSeriesLevel ==
    (planned /\ AvailableWithoutSeasonData) =>
        /\ decision.should_process
        /\ decision.scope = "series"
        /\ decision.action = config.action

RequestIssued == \E w \in Workers : reqs'[w] = reqs[w] + 1

\* C9: once FailureThreshold calls to the source have failed in a row, no
\* request goes to the source until more than RecoveryTimeout has passed
\* since the last failure.
C9_NoRequestAfterThreshold ==
    [][(RequestIssued /\ httpFails >= FailureThreshold) =>
          now - lastHttpFailAt > RecoveryTimeout]_vars

\* C10: a TVDB id is blacklisted only if a lookup of that id has failed at
\* the source; a rejection by the breaker blacklists nothing.
C10_BlacklistedOnlyByOwnFailure ==
    \A id \in TvdbIds :
        blacklist[id] >= BlacklistThreshold => id \in failedIds

\* C25: once FailureThreshold lookups in a row have failed at the source,
\* each of them has been recorded as a failure and none as a success: the
\* breaker is not closed.
C25_FailedLookupsOpenBreaker ==
    httpFails >= FailureThreshold => breaker.state # "closed"


(***************************************************************************)
(* The quota-guarded clients: get_series_availability of the secondary     *)
(* source and search_by_imdb_id of the tertiary source, called by          *)
(* NumCallers coroutines.                                                  *)
(***************************************************************************)
\* The quota window a day falls in: the date for the secondary source, the
\* "%Y-%m" month for the tertiary source.
QuotaWindow(src, d) ==
    IF src = "streaming_availability" THEN d ELSE d \div DaysPerMonth

\* config.daily_quota / config.monthly_quota
Quota(src) ==
    IF src = "streaming_availability" THEN DailyQuota ELSE MonthlyQuota

QuotaExceededStrict(count, quota) == count > quota

\* the test of _check_quota
QuotaExceeded(count, quota) == count >= quota

\* _check_quota: the counter starts again in a new window, then the call is
\* refused if the counter has reached the quota.
CheckQuota(src, count, window, d) ==
    LET fresh == QuotaWindow(src, d) # window
        cnt == IF fresh THEN 0 ELSE count
    IN  [count |-> cnt,
         window |-> QuotaWindow(src, d),
         raises |-> QuotaExceeded(cnt, Quota(src))]

HttpStatuses == {"200", "401", "403", "404", "429", "500", "RequestError"}

\* _make_request: what the call gets for each answer of the server.
MakeRequest(src, status) ==
    CASE status = "200" -> "ok"
      [] status = "404" -> "ok"
      [] status = "429" -> "RateLimitError"
      [] status = "403" /\ src = "streaming_availability" -> "RateLimitError"
      [] OTHER -> "Error"

CountAfterRequestNoSaturation(src, count, outcome) ==
    IF outcome = "ok" THEN count + 1 ELSE count

\* The counter after _make_request has come back.
CountAfterRequest(src, count, outcome) ==
    CASE outcome = "ok" -> count + 1
      [] outcome = "RateLimitError" /\ src = "streaming_availability" ->
             DailyQuota
      [] OTHER -> count

\* Successful calls whose request went out in the window that day d is in.
OkInWindow(src, d) ==
    LET RECURSIVE Sum(_)
        Sum(k) == IF k > MaxDay THEN 0
                  ELSE (IF QuotaWindow(src, k) = QuotaWindow(src, d)
                        THEN okIssued[src][k] ELSE 0) + Sum(k + 1)
    IN  Sum(0)

quotaRest == <<syncVars, checkerVars, mgrVars, runVars, cacheVars, rlVars,
              bkVars, mergeVars,
            elVars,
            invVars,
            repVars>>

\* The call up to its request: _check_quota, then the request is sent.
QuotaCheck(c, src) ==
    /\ cpc[c] = "idle"
    /\ LET chk == CheckQuota(src, request_count[src], request_window[src],
                             today)
       IN  /\ chk.raises \/ httpIssued["streaming_availability"]
                               + httpIssued["utelly"] < MaxHttp
           /\ request_count' = [request_count EXCEPT ![src] = chk.count]
           /\ request_window' = [request_window EXCEPT ![src] = chk.window]
           /\ lastCall' = [src |-> src,
                           okBefore |-> OkInWindow(src, today),
                           quota |-> Quota(src),
                           raised |-> IF chk.raises THEN "RateLimitError"
                                      ELSE "none",
                           requested |-> ~chk.raises,
                           day |-> today,
                           since403 |-> src = "streaming_availability"
                                        /\ last403.day = today,
                           saturated |-> src = "streaming_availability"
                                         /\ last403.window = today]
           /\ IF chk.raises
              THEN UNCHANGED <<cpc, ccall, httpIssued>>
              ELSE /\ cpc' = [cpc EXCEPT ![c] = "requesting"]
                   /\ ccall' = [ccall EXCEPT ![c] = [src |-> src,
                                                     day |-> today]]
                   /\ httpIssued' = [httpIssued EXCEPT ![src] = @ + 1]
    /\ UNCHANGED <<today, okIssued, last403, quotaRest>>

\* The request comes back and the call returns or raises.
QuotaReturn(c) ==
    /\ cpc[c] = "requesting"
    /\ \E status \in HttpStatuses :
         LET src == ccall[c].src
             outcome == MakeRequest(src, status)
         IN  /\ request_count' =
                   [request_count EXCEPT
                      ![src] = CountAfterRequest(src, @, outcome)]
             /\ okIssued' =
                   IF outcome = "ok"
                   THEN [okIssued EXCEPT ![src][ccall[c].day] = @ + 1]
                   ELSE okIssued
             /\ last403' =
                   IF status = "403" /\ src = "streaming_availability"
                   THEN [day |-> today, window |-> request_window[src],
                         count |-> CountAfterRequest(src, request_count[src],
                                                     outcome)]
                   ELSE last403
    /\ cpc' = [cpc EXCEPT ![c] = "idle"]
    /\ ccall' = [ccall EXCEPT ![c] = [src |-> "none", day |-> 0]]
    /\ UNCHANGED <<today, request_window, httpIssued, lastCall, quotaRest>>

\* Midnight.
NextDay ==
    /\ today < MaxDay
    /\ today' = today + 1
    /\ UNCHANGED <<request_count, request_window, cpc, ccall, httpIssued,
                   okIssued, lastCall, last403, quotaRest>>

InitQuota ==
    /\ Init
    /\ config.streaming_providers = <<[name |-> "netflix", country |-> "US"]>>
    /\ config.action = "unmonitor"
    /\ config.dry_run

NextQuota ==
    \/ \E c \in Callers, src \in QuotaSources : QuotaCheck(c, src)
    \/ \E c \in Callers : QuotaReturn(c)
    \/ NextDay

SpecQuota == InitQuota /\ [][NextQuota]_vars

\* C11: a call to a quota-guarded client made when `quota` calls whose
\* requests went out in the current window (the day for the secondary
\* source, the month for the tertiary) have succeeded raises RateLimitError
\* and sends no HTTP request.
C11_QuotaReachedRaisesWithoutRequest ==
    (lastCall.src # "none" /\ lastCall.okBefore >= lastCall.quota) =>
        (lastCall.raised = "RateLimitError" /\ ~lastCall.requested)

C11_Witness ==
    /\ lastCall.src = "utelly"
    /\ lastCall.okBefore = MonthlyQuota
    /\ lastCall.raised = "RateLimitError"
    /\ ~lastCall.requested
    /\ today = 1
    /\ okIssued["utelly"][0] > 0
    /\ okIssued["utelly"][1] > 0
    /\ httpIssued["utelly"] > MonthlyQuota

\* C26: per client and quota window, the calls admitted by _check_quota that
\* got their answer number at most the quota, however many are in flight.
C26_AdmittedWithinQuota ==
    \A src \in QuotaSources : \A d \in Days :
        OkInWindow(src, d) <= Quota(src)

\* C27 as stated: a lookup of the secondary source made on the day on which
\* the source answered HTTP 403 raises RateLimitError and sends no request.
C27_SaturatedAfter403 ==
    /\ last403.day # -1 => last403.count = DailyQuota
    /\ lastCall.since403 =>
          (lastCall.raised = "RateLimitError" /\ ~lastCall.requested)

\* C27, amended: the 403 leaves the counter at the daily quota, and a lookup
\* made on the client's _request_date as it stood when the 403 came in
\* raises RateLimitError and sends no request.
C27_SaturatedOnRequestDate ==
    /\ last403.day # -1 => last403.count = DailyQuota
    /\ lastCall.saturated =>
          (lastCall.raised = "RateLimitError" /\ ~lastCall.requested)

C27_Witness ==
    /\ lastCall.src = "streaming_availability"
    /\ lastCall.saturated
    /\ lastCall.since403
    /\ lastCall.okBefore = 0
    /\ lastCall.raised = "RateLimitError"
    /\ ~lastCall.requested
    /\ today > lastCall.day
    /\ request_count["streaming_availability"] = DailyQuota


(***************************************************************************)
(* The aggregator: ProviderManager.get_series_availability over the        *)
(* primary source (TMDB, behind the TMDB cache), the secondary source and  *)
(* the tertiary source.                                                    *)
(***************************************************************************)
\* _validate_imdb_id: TRUE when it returns, FALSE when it raises TMDBError.
\* re.match(r'^tt\d{7}$', s): `$` also matches before one trailing newline.
ValidateImdbId(imdb_id) ==
    LET core == IF Len(imdb_id) = 10 /\ imdb_id[10] = "\n"
                THEN SubSeq(imdb_id, 1, 9) ELSE imdb_id
    IN  /\ Len(core) = 9
        /\ core[1] = "t"
        /\ core[2] = "t"
        /\ \A i \in 3..9 : core[i] \in Digits

CountryLists == {<<"US">>, <<"US", "DE">>}

\* One country's entry of the watch/providers response: the names listed
\* under flatrate (free, ads alike) and under buy (rent alike).
TmdbCountryData ==
    {[flatrate |-> {}, buy |-> {}],
     [flatrate |-> {"Netflix"}, buy |-> {}],
     [flatrate |-> {}, buy |-> {"Netflix"}]}

TmdbResponses == UNION {[D -> TmdbCountryData] : D \in SUBSET Countries}

\* What the primary source does with the two requests of one lookup.
MgrTmdbAnswers ==
    {[find |-> f, watch |-> "ok", results |-> <<>>] :
         f \in {"notfound", "error"}}
    \cup {[find |-> "ok", watch |-> "error", results |-> <<>>]}
    \cup [find : {"ok"}, watch : {"ok"}, results : TmdbResponses]

\* What a quota-guarded source answers for one country.
SourceAnswers ==
    {[status |-> "200", services |-> {"netflix"}]}
    \cup {[status |-> st, services |-> {}] : st \in {"404", "429", "500"}}

\* TMDBClient._normalize_provider_name on the names of the model.
TmdbClientNormalizeProviderName(provider_name) ==
    CASE provider_name = "Netflix" -> "netflix"
      [] provider_name = "Hulu"    -> "hulu"
      [] OTHER                     -> provider_name

\* TMDBClient._extract_providers_from_response: per country the normalised
\* names of every availability type; a country without names is left out.
ExtractProvidersFromResponse(results) ==
    LET names(c) == {TmdbClientNormalizeProviderName(n) :
                        n \in results[c].flatrate \cup results[c].buy}
    IN  [c \in {k \in DOMAIN results : names(k) # {}} |-> names(c)]

\* _reconstruct_tmdb_response: every cached name goes under flatrate.
ReconstructTmdbResponse(providers_data) ==
    [c \in DOMAIN providers_data |->
        [flatrate |-> providers_data[c], buy |-> {}]]

IsExpiredNever(expires_at, t) == FALSE

\* TMDBCacheEntry.is_expired
IsExpired(expires_at, t) == t > expires_at

\* TMDBCache.get_provider_data: the data of a row that has not expired, None
\* (here the empty dict, which the caller treats alike) otherwise.
GetProviderData(row, t) ==
    IF row.present /\ ~IsExpired(row.expires_at, t) THEN row.data ELSE <<>>

\* TMDBCache.set_provider_data
SetProviderData(data, t) ==
    [present |-> TRUE, data |-> data, expires_at |-> t + ProviderDataTtl]

\* TMDBCache.get_id_mapping: whether the id has a row that has not expired.
GetIdMapping(mappings, imdb_id, t) ==
    mappings[imdb_id] # -1 /\ ~IsExpired(mappings[imdb_id], t)

SetIdMappingNoTtl(mappings, imdb_id, t) ==
    [mappings EXCEPT ![imdb_id] = t]

\* TMDBCache.set_id_mapping: expiry ten years on.
SetIdMapping(mappings, imdb_id, t) ==
    [mappings EXCEPT ![imdb_id] = t + IdMappingTtl]

\* _get_tmdb_data: id mapping from the cache or from find/<imdb_id>, provider
\* data from the cache or from tv/<id>/watch/providers; None (found = FALSE)
\* on any exception.  Gives the answer, the requests sent and the cache.
GetTmdbDataCached(imdb_id, answer, mappings, row, t, en) ==
    LET none(reqs_, mappings_) ==
            [found |-> FALSE, providers |-> <<>>, requests |-> reqs_,
             mappings |-> mappings_, row |-> row, cached |-> FALSE]
        find == {<<"tmdb", "find">>}
        watch == {<<"tmdb", "watch/providers">>}
        mapped == GetIdMapping(mappings, imdb_id, t)
        sent == IF mapped THEN {} ELSE find
        stored == IF mapped THEN mappings
                  ELSE SetIdMapping(mappings, imdb_id, t)
        providers_data == GetProviderData(row, t)
    IN  IF "tmdb" \notin en THEN none({}, mappings)
        ELSE IF ~mapped /\ ~ValidateImdbId(imdb_id) THEN none({}, mappings)
        ELSE IF ~mapped /\ answer.find # "ok" THEN none(find, mappings)
        ELSE IF providers_data # <<>>
             THEN [found |-> TRUE,
                   providers |-> ReconstructTmdbResponse(providers_data),
                   requests |-> sent, mappings |-> stored, row |-> row,
                   cached |-> TRUE]
        ELSE IF answer.watch # "ok" THEN none(sent \cup watch, stored)
        ELSE [found |-> TRUE,
              providers |-> answer.results,
              requests |-> sent \cup watch,
              mappings |-> stored,
              row |-> SetProviderData(
                          ExtractProvidersFromResponse(answer.results), t),
              cached |-> FALSE]

\* Step 1 of get_series_availability: the record after the primary source.
PrimaryRecord(tmdb_data, countries) ==
    LET present == {c \in countries :
                       tmdb_data.found /\ c \in DOMAIN tmdb_data.providers}
    IN  [countries |->
            [c \in present |->
                ExtractTmdbProviders(tmdb_data.providers[c].flatrate)],
         sources |-> IF tmdb_data.found THEN <<"tmdb">> ELSE <<>>]

\* Requested countries for which result["countries"] has no provider.
MissingCountries(rc, countries) ==
    {c \in SeqToSet(countries) : c \notin DOMAIN rc \/ rc[c] = {}}

\* _should_use_streaming_availability
ShouldUseStreamingAvailability(rec, countries) ==
    MissingCountries(rec.countries, countries) # {}

\* _should_use_utelly
ShouldUseUtelly(rec, countries) ==
    /\ MissingCountries(rec.countries, countries) # {}
    /\ "streaming_availability" \notin SeqToSet(rec.sources)

\* _merge_streaming_availability_data / _merge_utelly_data, on provider keys.
MergeSourceData(rc, data, countries) ==
    LET hit == {c \in SeqToSet(countries) : c \in DOMAIN data}
    IN  [c \in DOMAIN rc \cup hit |->
            (IF c \in DOMAIN rc THEN rc[c] ELSE {})
            \cup (IF c \in hit THEN data[c] ELSE {})]

LoopHandlerNoCatchAll(exc) ==
    IF exc = "RateLimitError" THEN "break" ELSE "raise"

\* The except clauses of the per-country loops: a quota error ends the loop,
\* any other exception is logged and the loop goes on.
LoopHandler(exc) ==
    IF exc = "RateLimitError" THEN "break" ELSE "continue"

mgrRest == <<syncVars, checkerVars, today, cpc, ccall, httpIssued, okIssued,
             lastCall, last403, enabled, runVars, cacheVars,
             rlVars, bkVars, mergeVars,
            elVars,
            invVars,
            repVars>>

\* The position after step 1 / step 2, and the loop variables there.
EnterPhase(rec, countries, after) ==
    IF after = "tmdb" /\ "streaming_availability" \in enabled
                      /\ ShouldUseStreamingAvailability(rec, countries)
    THEN "sa"
    ELSE IF "utelly" \in enabled /\ ShouldUseUtelly(rec, countries)
         THEN "utelly"
         ELSE "done"

\* get_series_availability is called.
MgrBegin ==
    /\ mpc \in {"idle", "done"}
    /\ mlookups < MaxMgrLookups
    /\ \E id \in ImdbIds, cs \in CountryLists :
          mreq' = [imdb_id |-> id, countries |-> cs]
    /\ mpc' = "tmdb"
    /\ mresult' = NoRecord
    /\ mprimary' = <<>>
    /\ mIdx' = 0
    /\ mData' = <<>>
    /\ mlog' = {}
    /\ mraised' = FALSE
    /\ mfailures' = {}
    /\ mlookups' = mlookups + 1
    /\ UNCHANGED <<mnow, idMapping, providerCache, mquota, request_count,
                   request_window, mgrRest>>

\* Step 1: _get_tmdb_data and the primary source's providers per country.
MgrTmdb ==
    /\ mpc = "tmdb"
    /\ \E answer \in MgrTmdbAnswers :
         LET tmdb_data == GetTmdbDataCached(mreq.imdb_id, answer, idMapping,
                                            providerCache, mnow, enabled)
             rec == PrimaryRecord(tmdb_data, SeqToSet(mreq.countries))
         IN  /\ idMapping' = tmdb_data.mappings
             /\ mfailures' = IF "tmdb" \in enabled /\ ~tmdb_data.found
                             THEN {<<"tmdb", "">>} ELSE {}
             /\ providerCache' = tmdb_data.row
             /\ mlog' = mlog \cup tmdb_data.requests
             /\ mresult' = rec
             /\ mprimary' = rec.countries
             /\ mpc' = EnterPhase(rec, mreq.countries, "tmdb")
    /\ mIdx' = 1
    /\ mData' = <<>>
    /\ UNCHANGED <<mnow, mreq, mraised, mquota, mlookups, request_count,
                   request_window, mgrRest>>

\* The loop of _get_streaming_availability_data / _get_utelly_data is over:
\* the data is merged and the next step, if any, begins.
LoopOver(src, data) ==
    LET rec == IF data # <<>>
               THEN [countries |-> MergeSourceData(mresult.countries, data,
                                                   mreq.countries),
                     sources |-> Append(mresult.sources, src)]
               ELSE mresult
    IN  /\ mresult' = rec
        /\ mpc' = IF src = "utelly" THEN "done"
                  ELSE EnterPhase(rec, mreq.countries, "sa")
        /\ mIdx' = 1
        /\ mData' = <<>>
        /\ mraised' = FALSE

\* One round of the per-country loop of step 2 or step 3: the client's quota
\* check, its request, and the except clauses of the loop.
MgrSourceCountry ==
    /\ mpc \in {"sa", "utelly"}
    /\ LET src == IF mpc = "sa" THEN "streaming_availability" ELSE "utelly"
           country == mreq.countries[mIdx]
           last == mIdx = Len(mreq.countries)
           chk == CheckQuota(src, request_count[src], request_window[src],
                             today)
           After(exc, data) ==
               IF exc # "none" /\ LoopHandler(exc) = "raise"
               THEN /\ mraised' = TRUE
                    /\ mpc' = "done"
                    /\ UNCHANGED <<mresult, mIdx, mData>>
               ELSE IF last \/ (exc # "none" /\ LoopHandler(exc) = "break")
               THEN LoopOver(src, data)
               ELSE /\ mIdx' = mIdx + 1
                    /\ mData' = data
                    /\ UNCHANGED <<mresult, mpc, mraised>>
       IN  /\ request_window' = [request_window EXCEPT ![src] = chk.window]
           /\ IF chk.raises
              THEN /\ request_count' =
                          [request_count EXCEPT ![src] = chk.count]
                   /\ mlog' = mlog
                   /\ mfailures' = mfailures \cup {<<src, country>>}
                   /\ mquota' = mquota \cup {src}
                   /\ After("RateLimitError", mData)
              ELSE \E ans \in SourceAnswers :
                     LET outcome == MakeRequest(src, ans.status)
                         found == IF ans.status = "200" THEN ans.services
                                  ELSE {}
                     IN  /\ request_count' =
                               [request_count EXCEPT
                                  ![src] = CountAfterRequest(src, chk.count,
                                                             outcome)]
                         /\ mlog' = mlog \cup {<<src, country>>}
                         /\ mfailures' = IF outcome = "ok" THEN mfailures
                                         ELSE mfailures \cup {<<src, country>>}
                         /\ mquota' = IF outcome = "RateLimitError"
                                      THEN mquota \cup {src} ELSE mquota
                         /\ After(IF outcome = "ok" THEN "none" ELSE outcome,
                                  IF outcome = "ok" /\ found # {}
                                  THEN [c \in DOMAIN mData \cup {country} |->
                                           IF c = country THEN found
                                           ELSE mData[c]]
                                  ELSE mData)
    /\ UNCHANGED <<mnow, idMapping, providerCache, mreq, mprimary, mlookups,
                   mgrRest>>

\* Time passes between two lookups.
MgrTick ==
    /\ mpc \in {"idle", "done"}
    /\ mnow < MaxMgrTime
    /\ mnow' = mnow + 1
    /\ UNCHANGED <<idMapping, providerCache, mpc, mreq, mresult, mprimary,
                   mIdx, mData, mlog, mraised, mfailures, mquota, mlookups,
                   request_count,
                   request_window, mgrRest>>

EnabledSets ==
    {{"tmdb"}, {"tmdb", "streaming_availability"},
     {"tmdb", "streaming_availability", "utelly"}, {"streaming_availability"}}

InitMgr ==
    /\ config = [action |-> "unmonitor", dry_run |-> TRUE,
                 streaming_providers |-> <<[name |-> "netflix", country |-> "US"]>>]
    /\ InitSync
    /\ jellyseerr_client = "JellyseerrClient"
    /\ InitCheckerVars
    /\ InitQuotaVars
    /\ enabled \in EnabledSets
    /\ InitMgrState
    /\ InitRunVars
    /\ InitCacheVars
    /\ InitRlVars
    /\ InitBkVars
    /\ InitMergeVars
    /\ InitElVars
    /\ InitInvVars
    /\ InitRepVars

NextMgr == MgrBegin \/ MgrTmdb \/ MgrSourceCountry \/ MgrTick

SpecMgr == InitMgr /\ [][NextMgr]_vars

\* C12: the secondary source gets a request only for a requested country
\* for which the primary source returned no provider.
C12_SecondaryOnlyForMissing ==
    \A c \in Countries :
        <<"streaming_availability", c>> \in mlog =>
            (c \notin DOMAIN mprimary \/ mprimary[c] = {})

\* C16: whichever calls to the sources fail, the lookup does not raise, and
\* the record it returns names only sources that were asked and answered.
C16_SourceFailureNeverRaises ==
    /\ ~mraised
    /\ mpc = "done" =>
          \A i \in 1..Len(mresult.sources) :
              LET src == mresult.sources[i]
              IN  IF src = "tmdb" THEN <<"tmdb", "">> \notin mfailures
                  ELSE \E c \in SeqToSet(mreq.countries) :
                          <<src, c>> \in mlog \ mfailures

C16_Witness ==
    /\ mpc = "done"
    /\ <<"tmdb", "">> \in mfailures
    /\ <<"tmdb", "watch/providers">> \in mlog
    /\ <<"streaming_availability", "US">> \in mfailures
    /\ mresult.sources = <<"streaming_availability">>
    /\ DOMAIN mresult.countries = {"DE"}

\* C18: a lookup with an imdb id that fails _validate_imdb_id sends no HTTP
\* request to any source and returns a record without countries.
C18_MalformedIdNoRequest ==
    (mpc # "idle" /\ ~ValidateImdbId(mreq.imdb_id)) =>
        (mlog = {} /\ mresult.countries = <<>>)

\* A request goes to source src in this step.
RequestSentTo(src) == \E c \in Countries : <<src, c>> \in mlog' \ mlog

\* C28: once a source has raised RateLimitError in a run, no request goes to
\* it in the rest of the run, in this lookup or a later one.
C28_NoRequestAfterQuotaError ==
    [][\A src \in QuotaSources : src \in mquota => ~RequestSentTo(src)]_vars

\* C29: when the lookup is over with a requested country still without
\* providers, the tertiary source enabled, within its quota and not refused
\* in this lookup, the tertiary source has been queried for that country.
C29_TertiaryQueriedForMissing ==
    (/\ mpc = "done"
     /\ mreq.countries # <<>>
     /\ "utelly" \in enabled
     /\ "utelly" \notin mquota
     /\ request_count["utelly"] < MonthlyQuota)
        => \A c \in MissingCountries(mresult.countries, mreq.countries) :
               <<"utelly", c>> \in mlog


(***************************************************************************)
(* SyncEngine.run_sync in dry-run mode, with the primary source behind the *)
(* TMDB cache as the only source (the default configuration).              *)
(***************************************************************************)
\* A series of the PVR without its id: IMDb id, whether a season record
\* lacks its seasonNumber, the monitored seasons, and why it is or is not
\* eligible.
PvrTemplates ==
    {[imdbId |-> "tt0903747", malformed |-> FALSE, monitored_seasons |-> {}],
     [imdbId |-> "tt0903747", malformed |-> FALSE, monitored_seasons |-> {1}],
     [imdbId |-> "tt0903747", malformed |-> TRUE, monitored_seasons |-> {}],
     [imdbId |-> "", malformed |-> FALSE, monitored_seasons |-> {}]}
    \X {"eligible", "unmonitored", "recent"}

\* The series at position i of the PVR's list; its id is its position.
PvrSeries(tpl, i) ==
    [id |-> i, imdbId |-> tpl[1].imdbId, malformed |-> tpl[1].malformed,
     seasons |-> [n \in Seasons |-> n \in tpl[1].monitored_seasons],
     monitored |-> tpl[2] # "unmonitored", recent |-> tpl[2] = "recent"]

PvrLists ==
    UNION {{[i \in 1..n |-> PvrSeries(f[i], i)] : f \in [1..n -> PvrTemplates]} :
              n \in 0..MaxPvrSeries}

\* The characters of a series' IMDb id.
ImdbChars(imdbId) == IF imdbId = "tt0903747" THEN BreakingBad ELSE <<>>

\* _get_eligible_series: monitored and not recently added, in list order.
RECURSIVE GetEligibleSeries(_, _)
GetEligibleSeries(all_series, i) ==
    IF i = 0 THEN <<>>
    ELSE LET rest == GetEligibleSeries(all_series, i - 1)
             s == all_series[i]
         IN  IF ~s.monitored \/ s.recent THEN rest ELSE Append(rest, s)

\* A SyncResult with the series it is about.
SeriesResult(s, r) ==
    [series_id |-> s.id, success |-> r.success,
     action_taken |-> r.action_taken, provider |-> r.provider,
     listed |-> r.listed, error |-> r.error]

\* _check_series_availability behind the cache: the availability map and the
\* cache after the lookup.
CheckSeriesAvailabilityCached(s, cfg, answer, mappings, row, t) ==
    LET user_providers == cfg.streaming_providers IN
    IF s.imdbId = ""
    THEN [availability |-> NothingAvailable(user_providers,
                                            Len(user_providers)),
          mappings |-> mappings, row |-> row]
    ELSE LET tmdb_data == GetTmdbDataCached(ImdbChars(s.imdbId), answer,
                                            mappings, row, t, {"tmdb"})
             availability_data ==
                 PrimaryRecord(tmdb_data, UserCountries(cfg))
             user_availability ==
                 FilterByUserProviders(availability_data, UserProviders(cfg))
         IN  [availability |-> ConvertAvailability(user_providers,
                                                   Len(user_providers),
                                                   user_availability),
              mappings |-> tmdb_data.mappings, row |-> tmdb_data.row]

\* _process_series in dry-run mode: the lookup, then the planner, which
\* raises KeyError on a season record without seasonNumber, then the dry-run
\* result or the "no action" result; the except clause turns the exception
\* into a failed result.
ProcessSeriesDryRun(s, cfg, avail) ==
    IF s.malformed
    THEN Result(FALSE, "none", "", <<>>, TRUE)
    ELSE LET d == MakeSyncDecision(s, avail, cfg)
         IN  IF d.should_process THEN DryRunResult(d)
             ELSE Result(TRUE, "none", "", <<>>, FALSE)

AppendResultUnlessFailed(res, r) ==
    IF r.success THEN Append(res, r) ELSE res

\* `if result: results.append(result)` and the append of the except clause.
AppendResult(res, r) == Append(res, r)

runRest == <<syncVars, checkerVars, quotaVars, enabled, mnow, mpc, mreq,
             mresult, mprimary, mIdx, mData, mlog, mraised, mfailures, mquota,
             mlookups, pvr, catalogue, cacheVars, rlVars,
            bkVars, mergeVars,
            elVars,
            invVars,
            repVars>>

\* run_sync up to its loop: _get_eligible_series, which raises SyncError
\* when the PVR cannot be read, and the return of [] when nothing is eligible.
RunSyncBegin ==
    /\ runPc \in {"idle", "returned"}
    /\ Len(runs) < MaxRuns
    /\ \E sonarr \in {"ok", "SonarrError"} :
         LET eligible_series == GetEligibleSeries(pvr, Len(pvr))
         IN  IF sonarr # "ok"
             THEN /\ runPc' = "raised"
                  /\ eligible' = <<>>
                  /\ runResults' = <<>>
                  /\ runIdx' = 0
                  /\ UNCHANGED runs
             ELSE IF eligible_series = <<>>
             THEN /\ runPc' = "returned"
                  /\ runs' = Append(runs, <<>>)
                  /\ eligible' = <<>>
                  /\ runResults' = <<>>
                  /\ runIdx' = 0
             ELSE /\ runPc' = "loop"
                  /\ eligible' = eligible_series
                  /\ runResults' = <<>>
                  /\ runIdx' = 1
                  /\ UNCHANGED runs
    /\ UNCHANGED <<idMapping, providerCache, runRest>>

\* One round of the loop of run_sync, and its return after the last one.
RunSyncSeries ==
    /\ runPc = "loop"
    /\ LET s == eligible[runIdx]
           checked == CheckSeriesAvailabilityCached(s, config, catalogue,
                                                    idMapping, providerCache,
                                                    mnow)
           r == SeriesResult(s, ProcessSeriesDryRun(s, config,
                                                    checked.availability))
           res == AppendResult(runResults, r)
       IN  /\ idMapping' = checked.mappings
           /\ providerCache' = checked.row
           /\ runResults' = res
           /\ IF runIdx = Len(eligible)
              THEN /\ runPc' = "returned"
                   /\ runs' = Append(runs, res)
                   /\ UNCHANGED runIdx
              ELSE /\ runIdx' = runIdx + 1
                   /\ UNCHANGED <<runPc, runs>>
    /\ UNCHANGED <<eligible, runRest>>

RunConfigs ==
    {[action |-> "unmonitor", dry_run |-> TRUE, streaming_providers |-> l] :
        l \in {<<[name |-> "netflix", country |-> "US"]>>,
               <<[name |-> "hulu", country |-> "DE"],
                 [name |-> "netflix", country |-> "US"]>>}}

InitRun ==
    /\ config \in RunConfigs
    /\ InitSync
    /\ jellyseerr_client = "JellyseerrClient"
    /\ InitCheckerVars
    /\ InitQuotaVars
    /\ InitMgrVars
    /\ pvr \in PvrLists
    /\ catalogue \in MgrTmdbAnswers
    /\ InitRunState
    /\ InitCacheVars
    /\ InitRlVars
    /\ InitBkVars
    /\ InitMergeVars
    /\ InitElVars
    /\ InitInvVars
    /\ InitRepVars

NextRun == RunSyncBegin \/ RunSyncSeries

SpecRun == InitRun /\ [][NextRun]_vars

\* The ids of the eligible series of the PVR's list, in list order.
EligibleIds ==
    LET el == GetEligibleSeries(pvr, Len(pvr))
    IN  [i \in 1..Len(el) |-> el[i].id]

C17_RerunSameResults ==
    Len(runs) = 2 => runs[1] = runs[2]


(***************************************************************************)
(* The caches on their own: AvailabilityCache.get/set/cleanup_expired/     *)
(* clear_cache and TMDBCache.get_*/set_*/cleanup_expired/clear_cache/      *)
(* invalidate_provider_data, called in any order as time passes.           *)
(***************************************************************************)
\* Instants of the clock: a few in a row, and two ten years on.
CacheInstants == 0..MaxTtl \cup {IdMappingTtl, IdMappingTtl + 1}

\* Keys of availability_cache the callers use.
AvKeys == {GenerateKey(inp) : inp \in {i \in LookupInputs : i.tvdb_id # 0}}

\* Entries of a payload's "providers" list: a clean one, one with blanks
\* around the name and a lower-case country, one without a name.
ProviderDicts ==
    {[provider_name |-> "Netflix", country |-> "US"],
     [provider_name |-> " Netflix ", country |-> "us"],
     [provider_name |-> "", country |-> "US"]}

\* Payloads: the "providers" list of the dict handed to set.
AvPayloads == {<<p>> : p \in ProviderDicts}

\* str.strip() and str.upper() on the strings of the model.
Strip(str) == IF str = " Netflix " THEN "Netflix" ELSE str
Upper(str) == IF str = "us" THEN "US" ELSE str

\* _sanitize_data: entries without a name or a country are dropped, names
\* are stripped, countries stripped and upper-cased.
SanitizeData(data) ==
    LET keep(pr) == pr.provider_name # "" /\ pr.country # ""
        clean == SelectSeq(data, keep)
    IN  [i \in 1..Len(clean) |->
            [provider_name |-> Strip(clean[i].provider_name),
             country |-> Upper(Strip(clean[i].country))]]

AvExpiredAlways(expires_at, t) == TRUE

\* The rows AvailabilityCache.cleanup_expired deletes: expires_at <= now.
AvExpired(expires_at, t) == expires_at <= t

\* AvailabilityCache.cleanup_expired on the expires_at column.
AvCleanup(c, t) ==
    [k \in DOMAIN c |-> IF c[k] # -1 /\ AvExpired(c[k], t) THEN -1 ELSE c[k]]

TcSelectsAny(cache_type) == TRUE

\* The cache_type test of TMDBCache.cleanup_expired.
TcSelects(cache_type) == cache_type = "provider_data"

\* TMDBCache.cleanup_expired: rows with expires_at < now that the test
\* selects are deleted.  Gives both tables' columns and the row count.
TcCleanup(mappings, row, t) ==
    LET gone == {i \in DOMAIN mappings :
                    mappings[i] # -1 /\ mappings[i] < t
                    /\ TcSelects("id_mapping")}
        rowGone == row.present /\ row.expires_at < t
                   /\ TcSelects("provider_data")
    IN  [mappings |-> [i \in DOMAIN mappings |->
                          IF i \in gone THEN -1 ELSE mappings[i]],
         row |-> IF rowGone THEN NoProviderData ELSE row,
         removed |-> Cardinality(gone) + (IF rowGone THEN 1 ELSE 0)]

\* Provider data a caller may store.
ProviderDataInputs == {[US |-> {"netflix"}], [DE |-> {"netflix"}]}

avRest == <<syncVars, jellyseerr_client, breaker, blacklist, now, lookups,
            wpc, wreq, wdata, returned, reqs, blAtStart, httpFails,
            lastHttpFailAt, failedIds, quotaVars, runVars, enabled, mpc, mreq,
            mresult, mprimary, mIdx, mData, mlog, mraised, mfailures, mquota,
            mlookups, underTest, rlVars, bkVars, mergeVars,
            elVars,
            invVars,
            repVars>>

\* AvailabilityCache.set, with the opportunistic cleanup at its end.
AvSet ==
    /\ underTest = "availability"
    /\ \E key \in AvKeys, v \in AvPayloads, ttl \in {0, MaxTtl} :
         LET stored == [cache EXCEPT ![key] = mnow + ttl]
             due == mnow - last_cleanup > CleanupInterval
             kept == IF due THEN AvCleanup(stored, mnow) ELSE stored
         IN  /\ cache' = kept
             /\ cacheData' = [k \in CacheKeys |->
                                 IF kept[k] = -1 THEN <<>>
                                 ELSE IF k = key THEN SanitizeData(v)
                                 ELSE cacheData[k]]
             /\ last_cleanup' = IF due THEN mnow ELSE last_cleanup
             /\ lastPut' = [lastPut EXCEPT
                              ![key] = IF ttl > 0
                                       THEN [present |-> TRUE, v |-> v,
                                             until |-> mnow + ttl]
                                       ELSE NoPut]
    /\ UNCHANGED <<mnow, idMapping, providerCache, lastRead, tcOp, avRest>>

\* AvailabilityCache.get
AvGet ==
    /\ underTest = "availability"
    /\ \E key \in AvKeys :
         LET got == CacheGet(cache, key, mnow)
         IN  /\ cache' = got.cache
             /\ cacheData' = [k \in CacheKeys |->
                                 IF got.cache[k] = -1 THEN <<>>
                                 ELSE cacheData[k]]
             /\ lastRead' = [kind |-> "availability",
                             hit |-> got.found,
                             expires_at |-> cache[key],
                             at |-> mnow,
                             value |-> IF got.found THEN cacheData[key]
                                       ELSE <<>>,
                             fresh |-> lastPut[key].present
                                       /\ mnow < lastPut[key].until,
                             put |-> lastPut[key].v]
    /\ UNCHANGED <<mnow, idMapping, providerCache, last_cleanup, lastPut,
                   tcOp, avRest>>

\* AvailabilityCache.cleanup_expired
AvCleanupExpired ==
    /\ underTest = "availability"
    /\ cache' = AvCleanup(cache, mnow)
    /\ cacheData' = [k \in CacheKeys |->
                        IF AvCleanup(cache, mnow)[k] = -1 THEN <<>>
                        ELSE cacheData[k]]
    /\ UNCHANGED <<mnow, idMapping, providerCache, last_cleanup, lastRead,
                   lastPut, tcOp, avRest>>

\* AvailabilityCache.clear_cache
AvClearCache ==
    /\ underTest = "availability"
    /\ cache' = [k \in CacheKeys |-> -1]
    /\ cacheData' = [k \in CacheKeys |-> <<>>]
    /\ lastPut' = [k \in CacheKeys |-> NoPut]
    /\ UNCHANGED <<mnow, idMapping, providerCache, last_cleanup, lastRead,
                   tcOp, avRest>>

tcRest == <<avRest, cache, cacheData, lastPut>>

\* TMDBCache.set_id_mapping
TcSetIdMapping ==
    /\ underTest = "tmdb"
    /\ idMapping' = SetIdMapping(idMapping, BreakingBad, mnow)
    /\ \E created_at \in {mnow, mnow + 1} \cap CacheInstants :
          /\ mnow' = created_at
          /\ tcOp' = [name |-> "set_id_mapping", removed |-> 0,
                      called_at |-> mnow, created_at |-> created_at,
                      expires_at |-> idMapping'[BreakingBad]]
    /\ UNCHANGED <<providerCache, last_cleanup, lastRead, tcRest>>

\* TMDBCache.get_id_mapping
TcGetIdMapping ==
    /\ underTest = "tmdb"
    /\ lastRead' = [kind |-> "id_mapping",
                    hit |-> GetIdMapping(idMapping, BreakingBad, mnow),
                    expires_at |-> idMapping[BreakingBad],
                    at |-> mnow, value |-> <<>>, fresh |-> FALSE,
                    put |-> <<>>]
    /\ tcOp' = [name |-> "get_id_mapping", removed |-> 0]
    /\ UNCHANGED <<mnow, idMapping, providerCache, last_cleanup, tcRest>>

\* TMDBCache.set_provider_data
TcSetProviderData ==
    /\ underTest = "tmdb"
    /\ \E data \in ProviderDataInputs :
          providerCache' = SetProviderData(data, mnow)
    /\ tcOp' = [name |-> "set_provider_data", removed |-> 0]
    /\ UNCHANGED <<mnow, idMapping, last_cleanup, lastRead, tcRest>>

\* TMDBCache.get_provider_data
TcGetProviderData ==
    /\ underTest = "tmdb"
    /\ lastRead' = [kind |-> "provider_data",
                    hit |-> GetProviderData(providerCache, mnow) # <<>>,
                    expires_at |-> providerCache.expires_at,
                    at |-> mnow,
                    value |-> GetProviderData(providerCache, mnow),
                    fresh |-> FALSE, put |-> <<>>]
    /\ tcOp' = [name |-> "get_provider_data", removed |-> 0]
    /\ UNCHANGED <<mnow, idMapping, providerCache, last_cleanup, tcRest>>

\* TMDBCache.cleanup_expired, called directly or by cleanup_if_needed once
\* the cleanup interval has passed.
TcCleanupExpired ==
    /\ underTest = "tmdb"
    /\ \E via \in {"cleanup_expired", "cleanup_if_needed"} :
         /\ via = "cleanup_if_needed" => mnow - last_cleanup > CleanupInterval
         /\ LET cleaned == TcCleanup(idMapping, providerCache, mnow)
            IN  /\ idMapping' = cleaned.mappings
                /\ providerCache' = cleaned.row
                /\ tcOp' = [name |-> via, removed |-> cleaned.removed]
    /\ last_cleanup' = mnow
    /\ UNCHANGED <<mnow, lastRead, tcRest>>

\* TMDBCache.clear_cache(cache_type), None clearing both kinds of rows.
TcClearCache ==
    /\ underTest = "tmdb"
    /\ \E cache_type \in {"None", "id_mapping", "provider_data"} :
         /\ idMapping' = IF cache_type \in {"None", "id_mapping"}
                         THEN [i \in ImdbIds |-> -1] ELSE idMapping
         /\ providerCache' = IF cache_type \in {"None", "provider_data"}
                             THEN NoProviderData ELSE providerCache
    /\ tcOp' = [name |-> "clear_cache", removed |-> 0]
    /\ UNCHANGED <<mnow, last_cleanup, lastRead, tcRest>>

\* TMDBCache.invalidate_provider_data
TcInvalidateProviderData ==
    /\ underTest = "tmdb"
    /\ providerCache' = NoProviderData
    /\ tcOp' = [name |-> "invalidate_provider_data", removed |-> 0]
    /\ UNCHANGED <<mnow, idMapping, last_cleanup, lastRead, tcRest>>

\* Time passes.
CacheTick ==
    /\ \E t \in CacheInstants : t > mnow /\ mnow' = t
    /\ UNCHANGED <<idMapping, providerCache, last_cleanup, lastRead, tcOp,
                   tcRest>>

InitCache ==
    /\ config = [action |-> "unmonitor", dry_run |-> TRUE,
                 streaming_providers |-> <<[name |-> "netflix", country |-> "US"]>>]
    /\ InitSync
    /\ jellyseerr_client = "JellyseerrClient"
    /\ InitCheckerVars
    /\ InitQuotaVars
    /\ InitMgrVars
    /\ InitRunVars
    /\ underTest \in {"availability", "tmdb"}
    /\ InitCacheState
    /\ InitRlVars
    /\ InitBkVars
    /\ InitMergeVars
    /\ InitElVars
    /\ InitInvVars
    /\ InitRepVars

NextCache ==
    \/ AvSet \/ AvGet \/ AvCleanupExpired \/ AvClearCache
    \/ TcSetIdMapping \/ TcGetIdMapping \/ TcSetProviderData
    \/ TcGetProviderData \/ TcCleanupExpired \/ TcClearCache
    \/ TcInvalidateProviderData \/ CacheTick

SpecCache == InitCache /\ [][NextCache]_vars

\* A read of availability_cache that finds an expired row leaves the table
\* without that row.
AvExpiredReadDeletes ==
    AvGet => \E key \in AvKeys :
                 /\ lastRead'.expires_at = cache[key]
                 /\ (cache[key] # -1 /\ mnow > cache[key]) => cache'[key] = -1

\* The same for the two kinds of rows of tmdb_cache.
TcExpiredReadDeletes ==
    /\ TcGetProviderData =>
          ((providerCache.present /\ IsExpired(providerCache.expires_at, mnow))
              => ~providerCache'.present)
    /\ TcGetIdMapping =>
          ((idMapping[BreakingBad] # -1
              /\ IsExpired(idMapping[BreakingBad], mnow))
              => idMapping'[BreakingBad] = -1)

\* C39: a read that finds an expired entry deletes the entry from the
\* backing store before it returns not-present, in the availability cache
\* and in the TMDB cache alike.
C39_ExpiredReadDeletes ==
    [][AvExpiredReadDeletes /\ TcExpiredReadDeletes]_vars

\* C13: a read of either cache (availability get, id-mapping get,
\* provider-data get) that returns an entry returns one whose expires_at is
\* not earlier than the time of the read.
C13_NoExpiredEntryReturned ==
    lastRead.hit => lastRead.expires_at >= lastRead.at

C13_Witness ==
    /\ lastRead.kind = "id_mapping"
    /\ lastRead.hit
    /\ lastRead.at = IdMappingTtl
    /\ lastRead.expires_at = IdMappingTtl
    /\ mnow > IdMappingTtl
    /\ ~GetIdMapping(idMapping, BreakingBad, mnow)

C40_TenYearsAfterCreation ==
    tcOp.name = "set_id_mapping" =>
        tcOp.expires_at - tcOp.created_at >= IdMappingTtl

\* C40 as the code has it: expires_at is ten years after the clock reading
\* taken when set_id_mapping begins, and created_at is a later reading, so
\* expires_at - created_at is at most ten years and short of it by the time
\* between the two readings.
C40_TenYearsAfterCall ==
    tcOp.name = "set_id_mapping" =>
        /\ tcOp.expires_at = tcOp.called_at + IdMappingTtl
        /\ tcOp.created_at >= tcOp.called_at
        /\ tcOp.expires_at - tcOp.created_at <= IdMappingTtl
        /\ idMapping[BreakingBad] = tcOp.expires_at

C40_Witness ==
    /\ tcOp.name = "set_id_mapping"
    /\ tcOp.created_at > tcOp.called_at
    /\ tcOp.expires_at - tcOp.created_at < IdMappingTtl

\* C19: a row of an id mapping goes away only in a clear_cache; neither
\* cleanup_expired nor cleanup_if_needed removes one, expired or not.
C19_IdMappingOnlyRemovedByClear ==
    [][(\E i \in ImdbIds : idMapping[i] # -1 /\ idMapping'[i] = -1) =>
          tcOp'.name = "clear_cache"]_vars

C19_Witness ==
    /\ tcOp.name = "cleanup_if_needed"
    /\ tcOp.removed = 1
    /\ idMapping[BreakingBad] # -1
    /\ IsExpired(idMapping[BreakingBad], mnow)
    /\ ~providerCache.present


(***************************************************************************)
(* TMDBClient._make_request called by several coroutines on one client:    *)
(* _enforce_rate_limit, the append to _request_times, the HTTP request.    *)
(***************************************************************************)
\* The timestamps _enforce_rate_limit keeps: those younger than the window.
PruneRequestTimes(times, t) ==
    SelectSeq(times, LAMBDA req_time : req_time > t - RateLimitWindow)

\* min(self._request_times)
OldestRequest(times) ==
    CHOOSE m \in SeqToSet(times) : \A x \in SeqToSet(times) : m <= x

\* _enforce_rate_limit at time t: the pruned list, and the instant until
\* which the caller sleeps (t itself when it does not sleep).
EnforceRateLimit(times, t) ==
    LET kept == PruneRequestTimes(times, t)
        wait_until == IF Len(kept) >= RateLimit
                      THEN OldestRequest(kept) + RateLimitWindow
                      ELSE t
    IN  [times |-> kept,
         sleeps |-> Len(kept) >= RateLimit /\ t < wait_until,
         wait_until |-> wait_until]

\* The requests sent at the instants of S.
SentIn(S) ==
    LET Sum[T \in SUBSET S] ==
            IF T = {} THEN 0
            ELSE LET u == CHOOSE x \in T : TRUE
                 IN  rlSent[u] + Sum[T \ {u}]
    IN  Sum[S]

\* The requests sent in the window that ends at t.
SentInWindow(t) ==
    SentIn({u \in 0..MaxRlTime : u > t - RateLimitWindow /\ u <= t})

TotalSent == SentIn(0..MaxRlTime)

\* The status codes the primary source answers with.
TmdbStatuses == {200, 401, 404, 429, 500, 503}

\* _make_http_request against a server that answers with the given status:
\* what it raises and the GET requests it has issued when it returns.  There
\* is one client.get and no loop around it.
MakeHttpRequest(status) ==
    [valid |-> TRUE, status |-> status,
     raised |-> CASE status = 200 -> "none"
                  [] status = 404 -> "TMDBNotFoundException"
                  [] status = 429 -> "RateLimitError"
                  [] OTHER -> "TMDBError",
     attempts |-> 1]

rlRest == <<syncVars, checkerVars, quotaVars, mgrVars, runVars, cacheVars,
           bkVars, mergeVars,
            elVars,
            invVars,
            repVars>>

\* A caller enters _make_request: _enforce_rate_limit up to its await; when
\* it does not sleep, the timestamp is appended and the request sent.
RlMakeRequest(c) ==
    /\ rlPc[c] = "idle"
    /\ TotalSent + Cardinality({d \in Callers : rlPc[d] = "sleeping"})
          < MaxRlRequests
    /\ LET e == EnforceRateLimit(rl_request_times, rlNow)
       IN  IF e.sleeps
           THEN /\ rl_request_times' = e.times
                /\ rlPc' = [rlPc EXCEPT ![c] = "sleeping"]
                /\ rlWake' = [rlWake EXCEPT ![c] = e.wait_until]
                /\ UNCHANGED <<rlSent, rlLast>>
           ELSE /\ rl_request_times' = Append(e.times, rlNow)
                /\ \E status \in TmdbStatuses :
                      /\ rlLast' = MakeHttpRequest(status)
                      /\ rlSent' = [rlSent EXCEPT
                                       ![rlNow] = @ + rlLast'.attempts]
                /\ UNCHANGED <<rlPc, rlWake>>
    /\ UNCHANGED <<rlNow, rlRest>>

\* asyncio.sleep is over: _enforce_rate_limit returns, the timestamp is
\* appended and the request sent.
RlWakeUp(c) ==
    /\ rlPc[c] = "sleeping"
    /\ rlNow >= rlWake[c]
    /\ rl_request_times' = Append(rl_request_times, rlNow)
    /\ \E status \in TmdbStatuses :
          /\ rlLast' = MakeHttpRequest(status)
          /\ rlSent' = [rlSent EXCEPT ![rlNow] = @ + rlLast'.attempts]
    /\ rlPc' = [rlPc EXCEPT ![c] = "idle"]
    /\ UNCHANGED <<rlNow, rlWake, rlRest>>

\* Time passes; a sleep that is over ends before it passes further.
RlTick ==
    /\ rlNow < MaxRlTime
    /\ \A c \in Callers : rlPc[c] = "sleeping" => rlNow < rlWake[c]
    /\ rlNow' = rlNow + 1
    /\ UNCHANGED <<rl_request_times, rlPc, rlWake, rlSent, rlLast, rlRest>>

InitRateLimit ==
    /\ Init
    /\ config.streaming_providers = <<[name |-> "netflix", country |-> "US"]>>
    /\ config.action = "unmonitor"
    /\ config.dry_run

NextRateLimit ==
    \/ \E c \in Callers : RlMakeRequest(c)
    \/ \E c \in Callers : RlWakeUp(c)
    \/ RlTick

SpecRateLimit == InitRateLimit /\ [][NextRateLimit]_vars

\* C20: in every window of RateLimitWindow instants at most RateLimit
\* requests have been sent, whatever the number of callers in flight.
C20_AtMostNPerWindow ==
    \A t \in 0..MaxRlTime : SentInWindow(t) <= RateLimit

\* C36: on a transient (status >= 500) answer of the primary source the
\* client retries, with at most 3 attempts in total before the error
\* surfaces; on 401, 404 and 429 it does not retry.
C36_RetriesTransientErrors ==
    rlLast.valid =>
        /\ rlLast.status >= 500 =>
              (rlLast.attempts \in 2..3 /\ rlLast.raised = "TMDBError")
        /\ rlLast.status \in {401, 404, 429} => rlLast.attempts = 1


(***************************************************************************)
(* CircuitBreaker on its own: can_attempt_call, call(func) with func       *)
(* running outside the lock, record_failure and record_success, called by  *)
(* the threads that share the breaker as time passes.                      *)
(***************************************************************************)
\* What a can_attempt_call leaves in the history.
Attempt(att) ==
    [valid |-> TRUE, ret |-> att.ret, at |-> now, before |-> breaker.state,
     fails |-> recFails, lastFail |-> lastRecFailAt]

bkRest == <<syncVars, jellyseerr_client, blacklist, cache, lookups, wpc, wreq,
            wdata, returned, reqs, blAtStart, httpFails, lastHttpFailAt,
            failedIds, quotaVars, mgrVars, runVars, cacheVars, rlVars,
            mergeVars,
            elVars,
            invVars,
            repVars>>

\* can_attempt_call, by any thread.
BkCanAttemptCall ==
    /\ LET att == CanAttemptCall(breaker, now)
       IN  /\ breaker' = att.breaker
           /\ lastAttempt' = Attempt(att)
    /\ UNCHANGED <<now, bkPc, bkAdmit, lastCallEnd, recFails, lastRecFailAt,
                   bkRest>>

\* call(func) up to func: CircuitBreakerError when can_attempt_call refuses,
\* else func starts.
BkCallBegin(c) ==
    /\ bkPc[c] = "idle"
    /\ LET att == CanAttemptCall(breaker, now)
       IN  /\ breaker' = att.breaker
           /\ lastAttempt' = Attempt(att)
           /\ bkPc' = [bkPc EXCEPT ![c] = IF att.ret THEN "running" ELSE "idle"]
           /\ bkAdmit' = [bkAdmit EXCEPT
                            ![c] = IF att.ret THEN att.breaker.state ELSE "none"]
    /\ UNCHANGED <<now, lastCallEnd, recFails, lastRecFailAt, bkRest>>

\* func comes back, with a result or an exception, and call() records it.
BkCallEnd(c) ==
    /\ bkPc[c] = "running"
    /\ \E r \in {"data", "raise"} :
         LET after == BreakerAfterCall(breaker, r, now)
         IN  /\ r = "raise" => breaker.failure_count < MaxFailureCount
             /\ breaker' = after
             /\ lastCallEnd' = [valid |-> TRUE, outcome |-> r, at |-> now,
                                before |-> breaker.state, after |-> after]
             /\ recFails' = IF r = "raise" THEN recFails + 1
                            ELSE IF after # breaker THEN 0 ELSE recFails
             /\ lastRecFailAt' = IF r = "raise" THEN now ELSE lastRecFailAt
    /\ bkPc' = [bkPc EXCEPT ![c] = "idle"]
    /\ bkAdmit' = [bkAdmit EXCEPT ![c] = "none"]
    /\ UNCHANGED <<now, lastAttempt, bkRest>>

\* record_failure called directly.
BkRecordFailure ==
    /\ breaker.failure_count < MaxFailureCount
    /\ breaker' = BreakerRecordFailure(breaker, now)
    /\ recFails' = recFails + 1
    /\ lastRecFailAt' = now
    /\ UNCHANGED <<now, bkPc, bkAdmit, lastAttempt, lastCallEnd, bkRest>>

\* record_success called directly.
BkRecordSuccess ==
    /\ breaker' = BreakerRecordSuccess(breaker)
    /\ recFails' = 0
    /\ UNCHANGED <<now, bkPc, bkAdmit, lastAttempt, lastCallEnd,
                   lastRecFailAt, bkRest>>

\* Time passes.
BkTick ==
    /\ now < MaxBreakerTime
    /\ now' = now + 1
    /\ UNCHANGED <<breaker, bkVars, bkRest>>

InitBreaker ==
    /\ Init
    /\ config.streaming_providers = <<[name |-> "netflix", country |-> "US"]>>
    /\ config.action = "unmonitor"
    /\ config.dry_run

NextBreaker ==
    \/ BkCanAttemptCall
    \/ \E c \in Threads : BkCallBegin(c)
    \/ \E c \in Threads : BkCallEnd(c)
    \/ BkRecordFailure
    \/ BkRecordSuccess
    \/ BkTick

SpecBreaker == InitBreaker /\ [][NextBreaker]_vars

\* C21: a can_attempt_call made after FailureThreshold or more failures were
\* recorded with no success recorded between them, and not more than
\* RecoveryTimeout after the last of them, returns False.
C21_OpenUntilRecoveryTimeout ==
    (/\ lastAttempt.valid
     /\ lastAttempt.fails >= FailureThreshold
     /\ lastAttempt.at - lastAttempt.lastFail <= RecoveryTimeout)
        => ~lastAttempt.ret

C21_Witness ==
    /\ lastAttempt.valid
    /\ lastAttempt.fails = FailureThreshold
    /\ lastAttempt.at - lastAttempt.lastFail = RecoveryTimeout
    /\ ~lastAttempt.ret
    /\ lastAttempt.at > lastAttempt.lastFail
    /\ now > lastAttempt.at
    /\ CanAttemptCall(breaker, now).ret

\* C22: a func that returns without an exception inside call() is recorded
\* as a success whatever the breaker's state: failure_count is 0 afterwards.
C22_SuccessRecordedInEveryState ==
    (lastCallEnd.valid /\ lastCallEnd.outcome = "data") =>
        lastCallEnd.after.failure_count = 0

\* C23: while the breaker is half-open, at most one caller that call() let
\* in since it became half-open is running func.
C23_OneProbeInHalfOpen ==
    breaker.state = "half-open" =>
        Cardinality({c \in Threads :
                        bkPc[c] = "running" /\ bkAdmit[c] = "half-open"}) <= 1

\* C24: a call() that ends while the breaker is half-open closes it with
\* failure_count 0 when func returned, and opens it with last_failure_time
\* the time of the failure when func raised; and an open breaker lets a
\* caller in only when more than RecoveryTimeout has passed since the last
\* failure recorded.
C24_HalfOpenProbeOutcome ==
    /\ (lastCallEnd.valid /\ lastCallEnd.before = "half-open") =>
          IF lastCallEnd.outcome = "data"
          THEN lastCallEnd.after = NewBreaker
          ELSE /\ lastCallEnd.after.state = "open"
               /\ lastCallEnd.after.last_failure_time = lastCallEnd.at
    /\ (lastAttempt.valid /\ lastAttempt.before = "open" /\ lastAttempt.ret) =>
          lastAttempt.at - lastAttempt.lastFail > RecoveryTimeout

C24_Witness ==
    /\ lastCallEnd.valid
    /\ lastCallEnd.before = "half-open"
    /\ lastCallEnd.outcome = "raise"
    /\ lastCallEnd.after.state = "open"
    /\ lastAttempt.valid
    /\ lastAttempt.before = "open"
    /\ lastAttempt.ret
    /\ lastAttempt.lastFail = lastCallEnd.at
    /\ lastAttempt.at > lastCallEnd.at

(***************************************************************************)
(* The merges of the later sources into one provider's offer.              *)
(***************************************************************************)

\* The offer _extract_tmdb_providers records.
TmdbOffer == [NoOffer EXCEPT !.available = "True", !.type = "subscription",
                             !.source = "tmdb"]

\* The urls a Utelly location carries.
UtellyUrls == {"", "https://utelly.example/watch",
               "https://utelly.example/rent"}

\* _determine_type_from_url on those urls.
DetermineTypeFromUrl(url) ==
    IF url = "" THEN "unknown"
    ELSE IF url = "https://utelly.example/rent" THEN "rent"
    ELSE "subscription"

\* The details extract_provider_info of the secondary source builds.
SaDetails == [type : {"subscription", "rent"},
              link : {"", "https://sa.example/show"},
              quality : {""}, expiry_date : {"None"}]

\* The details extract_provider_info of the tertiary source builds.
UtellyDetails == {[icon |-> i, url |-> u, type |-> DetermineTypeFromUrl(u)] :
                    i \in {"", "icon.png"}, u \in UtellyUrls}

DetailLists(details) ==
    UNION {[1..n -> details] : n \in 1..MaxDetails}

\* The body of the loop over provider_details, secondary source.
SaUpdate(offer, detail) ==
    [offer EXCEPT !.type = detail.type, !.link = detail.link,
                  !.quality = detail.quality,
                  !.expiry_date = detail.expiry_date,
                  !.source = "streaming_availability"]

\* The body of the loop over provider_details, tertiary source.
UtellyUpdate(offer, detail) ==
    [offer EXCEPT !.link = IF offer.link = Missing THEN detail.url ELSE @,
                  !.type = detail.type, !.icon = detail.icon,
                  !.source = "utelly"]

RECURSIVE ApplyDetails(_, _, _)
ApplyDetails(src, offer, details) ==
    IF details = <<>> THEN offer
    ELSE ApplyDetails(src,
                      IF src = "streaming_availability"
                      THEN SaUpdate(offer, Head(details))
                      ELSE UtellyUpdate(offer, Head(details)),
                      Tail(details))

\* _merge_streaming_availability_data and _merge_utelly_data for one
\* provider of one country.
MergeOffer(src, offer, details) ==
    ApplyDetails(src,
                 IF offer = NoOffer
                 THEN [NoOffer EXCEPT !.available = "True", !.source = src]
                 ELSE offer,
                 details)

\* A field that holds nothing: no key, the empty string or None.
IsEmptyField(v) == v \in {Missing, "", "None"}

OfferFields == {"available", "type", "link", "quality", "expiry_date", "icon",
                "source"}

mergeRest == <<syncVars, checkerVars, quotaVars, mgrVars, runVars, cacheVars,
               rlVars, bkVars, elVars,
            invVars,
            repVars>>

\* A later source reports the provider.
MergeSourceOffer ==
    /\ mergePc = "input"
    /\ mergeBefore' = mergeOffer
    /\ mergeOffer' = MergeOffer(mergeSource, mergeOffer, mergeDetails)
    /\ mergePc' = "merged"
    /\ UNCHANGED <<mergeSource, mergeDetails, mergeRest>>

InitMerge ==
    /\ config = [action |-> "unmonitor", dry_run |-> TRUE,
                 streaming_providers |-> <<[name |-> "netflix", country |-> "US"]>>]
    /\ InitSync
    /\ jellyseerr_client = "JellyseerrClient"
    /\ InitCheckerVars
    /\ InitQuotaVars
    /\ InitMgrVars
    /\ InitRunVars
    /\ InitCacheVars
    /\ InitRlVars
    /\ InitBkVars
    /\ InitElVars
    /\ InitInvVars
    /\ InitRepVars
    /\ mergePc = "input"
    /\ mergeSource \in {"streaming_availability", "utelly"}
    /\ mergeDetails \in DetailLists(IF mergeSource = "streaming_availability"
                                     THEN SaDetails ELSE UtellyDetails)
    /\ mergeOffer \in {NoOffer, TmdbOffer}
    /\ mergeBefore = NoOffer

NextMerge == MergeSourceOffer

SpecMerge == InitMerge /\ [][NextMerge]_vars

\* C30: when a later source reports a provider that the country already
\* has, the merge leaves the offer's source tag and every non-empty field
\* as they were and changes only fields that were empty.
C30_MergeFillsOnlyEmptyFields ==
    (mergePc = "merged" /\ mergeBefore # NoOffer)
        => /\ mergeOffer.source = mergeBefore.source
           /\ \A f \in OfferFields :
                  ~IsEmptyField(mergeBefore[f])
                      => mergeOffer[f] = mergeBefore[f]

(***************************************************************************)
(* SyncEngine._get_eligible_series with the `added` values of the series.  *)
(***************************************************************************)
\* config.sync.exclude_recent_days and the day of datetime.now(), in days.
ExcludeRecentDays == 1
NowDay == 3

\* The `added` values of the model: None, two UTC timestamps, a string that
\* is no ISO date, and two timestamps without a UTC offset.
AddedValues == {"None", "day1Z", "day3Z", "garbage", "day1", "day3"}

\* datetime.fromisoformat(added.replace('Z', '+00:00')): ValueError, or a
\* datetime that is aware (carries an offset) or naive.
FromIsoFormat(added) ==
    CASE added = "day1Z" -> [error |-> "none", aware |-> TRUE, day |-> 1]
      [] added = "day3Z" -> [error |-> "none", aware |-> TRUE, day |-> 3]
      [] added = "day1" -> [error |-> "none", aware |-> FALSE, day |-> 1]
      [] added = "day3" -> [error |-> "none", aware |-> FALSE, day |-> 3]
      [] OTHER -> [error |-> "ValueError", aware |-> FALSE, day |-> 0]

\* The body of the loop for one series: "skip", "keep", or the exception
\* that leaves the loop.  Comparing a naive datetime with the aware cut-off
\* raises TypeError, which `except ValueError` does not catch.
EligibleStep(s) ==
    IF ~s.monitored THEN "skip"
    ELSE IF s.added = "None" THEN "keep"
    ELSE LET added_date == FromIsoFormat(s.added) IN
         IF added_date.error = "ValueError" THEN "keep"
         ELSE IF ~added_date.aware THEN "TypeError"
         ELSE IF added_date.day > NowDay - ExcludeRecentDays THEN "skip"
         ELSE "keep"

\* _get_eligible_series on the first i series of the list.
RECURSIVE GetEligibleSeriesAdded(_, _)
GetEligibleSeriesAdded(l, i) ==
    IF i = 0 THEN NoEligible
    ELSE LET rest == GetEligibleSeriesAdded(l, i - 1)
             step == EligibleStep(l[i])
         IN  IF rest.raised # "none" THEN rest
             ELSE IF step = "keep"
             THEN [rest EXCEPT !.eligible_series = Append(@, l[i])]
             ELSE IF step = "skip" THEN rest
             ELSE [raised |-> step, eligible_series |-> <<>>]

\* An `added` value that is no timestamp comparable with the cut-off.
MalformedAdded(added) ==
    \/ FromIsoFormat(added).error # "none" /\ added # "None"
    \/ FromIsoFormat(added).error = "none" /\ ~FromIsoFormat(added).aware

elRest == <<syncVars, checkerVars, quotaVars, mgrVars, runVars, cacheVars,
            rlVars, bkVars, mergeVars, invVars,
            repVars>>

\* run_sync calls _get_eligible_series.
ElGetEligibleSeries ==
    /\ elPc = "input"
    /\ elOut' = GetEligibleSeriesAdded(elSeries, Len(elSeries))
    /\ elPc' = "done"
    /\ UNCHANGED <<elSeries, elRest>>

InitEligible ==
    /\ config = [action |-> "unmonitor", dry_run |-> TRUE,
                 streaming_providers |-> <<[name |-> "netflix", country |-> "US"]>>]
    /\ InitSync
    /\ jellyseerr_client = "JellyseerrClient"
    /\ InitCheckerVars
    /\ InitQuotaVars
    /\ InitMgrVars
    /\ InitRunVars
    /\ InitCacheVars
    /\ InitRlVars
    /\ InitBkVars
    /\ InitMergeVars
    /\ InitInvVars
    /\ InitRepVars
    /\ elPc = "input"
    /\ elSeries \in UNION {[1..n -> [monitored : BOOLEAN, added : AddedValues]] :
                              n \in 0..MaxPvrSeries}
    /\ elOut = NoEligible

NextEligible == ElGetEligibleSeries

SpecEligible == InitEligible /\ [][NextEligible]_vars

\* C33: a series whose `added` value is malformed is kept in the eligible
\* set as not recent; it never makes the call raise (which aborts the run)
\* and never makes another series drop out of the eligible set.
C33_MalformedAddedKept ==
    elPc = "done" =>
        /\ elOut.raised = "none"
        /\ \A i \in 1..Len(elSeries) :
              (elSeries[i].monitored /\ MalformedAdded(elSeries[i].added))
                  => \E j \in 1..Len(elOut.eligible_series) :
                         elOut.eligible_series[j] = elSeries[i]

(***************************************************************************)
(* TMDBCache.invalidate_provider_data: the keys it deletes.  A key is the  *)
(* sequence of its characters, with the prefix and the country code each   *)
(* taken as one character.                                                 *)
(***************************************************************************)
\* str(n) for a natural number: its decimal digits.
DigitChars == <<"0", "1", "2", "3", "4", "5", "6", "7", "8", "9">>

RECURSIVE Str(_)
Str(n) ==
    IF n < 10 THEN <<DigitChars[n + 1]>>
    ELSE Str(n \div 10) \o <<DigitChars[(n % 10) + 1]>>

\* _generate_key; country "" stands for None.
TmdbGenerateKey(prefix, identifier, country) ==
    IF country # "" THEN <<prefix, ":">> \o identifier \o <<":", country>>
    ELSE <<prefix, ":">> \o identifier

\* key LIKE pattern%, the pattern holding no wildcard of its own.
Like(key, pattern) ==
    /\ Len(pattern) <= Len(key)
    /\ SubSeq(key, 1, Len(pattern)) = pattern

\* The rows left by invalidate_provider_data(tmdb_id, country).
InvalidateProviderData(table, tmdb_id, country) ==
    IF country # ""
    THEN table \ {TmdbGenerateKey("providers", Str(tmdb_id), country)}
    ELSE {key \in table :
             ~Like(key, TmdbGenerateKey("providers", Str(tmdb_id), ""))}

\* TMDB ids and country arguments of the model.
InvTmdbIds == {7, 12, 123}
InvCountries == {"", "US"}

\* The provider-data key of an id and a country.
ProviderKey(tmdb_id, country) ==
    TmdbGenerateKey("providers", Str(tmdb_id), country)

\* The keys the table may hold: provider data, and one id mapping.
InvKeys ==
    {ProviderKey(i, c) : i \in InvTmdbIds, c \in InvCountries}
        \cup {TmdbGenerateKey("id_mapping", <<"tt0903747">>, "")}

invRest == <<syncVars, checkerVars, quotaVars, mgrVars, runVars, cacheVars,
             rlVars, bkVars, mergeVars, elVars, repVars>>

\* invalidate_provider_data(tmdb_id, country) is called.
InvInvalidate ==
    /\ invPc = "input"
    /\ invBefore' = tmdb_cache
    /\ tmdb_cache' = InvalidateProviderData(tmdb_cache, invCall.tmdb_id,
                                            invCall.country)
    /\ invPc' = "done"
    /\ UNCHANGED <<invCall, invRest>>

InitInvalidate ==
    /\ config = [action |-> "unmonitor", dry_run |-> TRUE,
                 streaming_providers |-> <<[name |-> "netflix", country |-> "US"]>>]
    /\ InitSync
    /\ jellyseerr_client = "JellyseerrClient"
    /\ InitCheckerVars
    /\ InitQuotaVars
    /\ InitMgrVars
    /\ InitRunVars
    /\ InitCacheVars
    /\ InitRlVars
    /\ InitBkVars
    /\ InitMergeVars
    /\ InitElVars
    /\ InitRepVars
    /\ invPc = "input"
    /\ tmdb_cache \in SUBSET InvKeys
    /\ invCall \in [tmdb_id : InvTmdbIds, country : InvCountries]
    /\ invBefore = {}

NextInvalidate == InvInvalidate

SpecInvalidate == InitInvalidate /\ [][NextInvalidate]_vars

\* C37: invalidate(tmdbId) deletes every provider-data row of that tmdbId,
\* with or without a country, and no row of another tmdbId;
\* invalidate(tmdbId, country) deletes only the row of that id and country.
C37_InvalidateOnlyThatId ==
    invPc = "done" =>
        invBefore \ tmdb_cache =
            invBefore \cap
                (IF invCall.country = ""
                 THEN {ProviderKey(invCall.tmdb_id, c) : c \in InvCountries}
                 ELSE {ProviderKey(invCall.tmdb_id, invCall.country)})

(***************************************************************************)
(* ProviderManager._get_tmdb_data called again and again for one series,   *)
(* with the counters of TMDBCache._get_entry.                              *)
(***************************************************************************)
\* The reads of _get_entry in one _get_tmdb_data: a row that exists counts
\* as a hit, expired or not; the provider-data read happens only when an id
\* was cached or find/<imdb_id> gave one.
EntryReads(imdb_id, answer, mappings, row, t) ==
    LET id_row == mappings[imdb_id] # -1
        reads_providers ==
            \/ GetIdMapping(mappings, imdb_id, t)
            \/ ValidateImdbId(imdb_id) /\ answer.find = "ok"
    IN  [hits |-> (IF id_row THEN 1 ELSE 0)
                  + (IF reads_providers /\ row.present THEN 1 ELSE 0),
         misses |-> (IF id_row THEN 0 ELSE 1)
                    + (IF reads_providers /\ ~row.present THEN 1 ELSE 0)]

repRest == <<syncVars, checkerVars, quotaVars, enabled, mnow, mpc, mreq,
             mresult, mprimary, mIdx, mData, mlog, mraised, mfailures, mquota,
             mlookups, runVars, cacheVars, rlVars, bkVars, mergeVars, elVars,
             invVars>>

\* One more lookup of the series.
RepLookup ==
    /\ repDone < MaxRepeats
    /\ LET tmdb_data == GetTmdbDataCached(repId, catalogue, idMapping,
                                          providerCache, mnow, enabled)
           reads == EntryReads(repId, catalogue, idMapping, providerCache,
                               mnow)
       IN  /\ idMapping' = tmdb_data.mappings
           /\ providerCache' = tmdb_data.row
           /\ hit_count' = hit_count + reads.hits
           /\ miss_count' = miss_count + reads.misses
           /\ repFetched' = repFetched
                               + (IF tmdb_data.requests # {} THEN 1 ELSE 0)
    /\ repDone' = repDone + 1
    /\ UNCHANGED <<repId, repRest>>

InitRepeat ==
    /\ config = [action |-> "unmonitor", dry_run |-> TRUE,
                 streaming_providers |-> <<[name |-> "netflix", country |-> "US"]>>]
    /\ InitSync
    /\ jellyseerr_client = "JellyseerrClient"
    /\ InitCheckerVars
    /\ InitQuotaVars
    /\ InitMgrVars
    /\ pvr = <<>>
    /\ catalogue \in MgrTmdbAnswers
    /\ InitRunState
    /\ InitCacheVars
    /\ InitRlVars
    /\ InitBkVars
    /\ InitMergeVars
    /\ InitElVars
    /\ InitInvVars
    /\ hit_count = 0
    /\ miss_count = 0
    /\ repId \in ImdbIds \ {<<>>}
    /\ repDone = 0
    /\ repFetched = 0

NextRepeat == RepLookup

SpecRepeat == InitRepeat /\ [][NextRepeat]_vars

\* C38: after N identical lookups of one series with no expiry in between,
\* the first lookup alone missed the cache, the N-1 later ones were answered
\* from it, and the hit ratio hits / (hits + misses) is (N-1)/N.
C38_HitRatioOfRepeatedLookups ==
    repDone >= 1 =>
        /\ repFetched = 1
        /\ hit_count * repDone = (repDone - 1) * (hit_count + miss_count)

====
